---- MODULE Spec2Model ----
(***************************************************************************)
(* The LifeLog enrichment pipeline of src/server.js: the in-memory entry   *)
(* store, its persisted snapshot, the automatic run started by ingestion   *)
(* and the manual transcribe / analyze / embed / embed-all requests, each  *)
(* suspended only at its provider calls.                                   *)
(*                                                                         *)
(* Representation.  An entry object lives in objs (the heap: every entry   *)
(* object ever created, by creation order); entries is the array of the    *)
(* store, holding references into objs, so a run that captured an entry    *)
(* keeps mutating the object after it was spliced out of the array.        *)
(* A field holding null is Null, a property that was never assigned is     *)
(* Undef.  The clock is read for its value only by Date.now() (the id of   *)
(* a new entry): it starts at 1 with the first ingestion and each later    *)
(* ingestion reads it some ticks later, or in the same tick.  Of a stage   *)
(* time stamp (transcribedAt, analyzedAt, embeddedAt, updatedAt) the model *)
(* keeps whether it has been assigned.                                     *)
(* Of an HTTP response the model keeps the status code.                    *)
(***************************************************************************)
EXTENDS Integers, Sequences, FiniteSets, Bags, TLC

VARIABLES
    openaiKey,      \* process.env.OPENAI_API_KEY is set
    anthropicKey,   \* process.env.ANTHROPIC_API_KEY is set
    now,            \* Date.now() as last read by an ingestion, 0 before the first
    objs,           \* heap of entry objects
    entries,        \* the entries array: references into objs
    disk,           \* entries.json as last written by saveEntries
    runs,           \* bag of suspended handlers, each with the provider
                    \* calls it has issued and that have not settled yet
    resp,           \* status of the last HTTP response sent, 0 before the first
    registry,       \* the plugin loader's registry: loaded plugins, in load order
    dispatch,       \* the callHook invocation in progress, or the last one
    loader,         \* the loadPlugins invocation in progress, or the last one
    query,          \* the search or analytics request being served, or the last one
    reply,          \* the body of the last search or analytics response
    exercise,       \* data of plugins/exercise/data.js: sessions and streaks
    exerciseFile,   \* data/exercise.json as last written by its save()
    wearable,       \* data of plugins/wearable/data.js: sources, activities, goals
    wearableFile,   \* data/wearable.json as last written by its save()
    answer          \* the last response of a route of the two plugins

vars == <<openaiKey, anthropicKey, now, objs, entries, disk, runs, resp,
          registry, dispatch, loader, query, reply,
          exercise, exerciseFile, wearable, wearableFile, answer>>

\* the data of the exercise and wearable plugins with the last response of
\* their routes, which neither server.js nor the plugin loader touches
records == <<exercise, exerciseFile, wearable, wearableFile, answer>>

\* the state of the plugin loader and of the plugins, which no route of
\* server.js touches
plugins == <<registry, dispatch, loader, records>>

\* the state of the search and analytics routes, which no stage of the
\* pipeline touches
reads == <<query, reply>>

-----------------------------------------------------------------------------
(* Bounds *)

MaxEntries == 1
MaxRuns == 2
MaxTime == 2

-----------------------------------------------------------------------------
(* Values *)

Null == "null"
Undef == "undef"
AudioFile == "audio"

\* what a transcription may return, and the transcript an ingest body may carry
Texts == {"a", "b"}
BodyTexts == {Undef, "", "a"}

\* fields a parsed analysis object may lack
Shapes == {{}, {"summary"}, {"mood"}}

IsNull(v) == v \in {Null, Undef}

\* JavaScript truthiness of a string-or-null value
Truthy(v) == v \notin {Null, Undef, ""}

\* `${a} ${b}` on strings
Template(a, b) == a \o " " \o b

-----------------------------------------------------------------------------
(* Providers *)

\* JSON.parse of the analysis provider's answer for a transcript: a field
\* the answer lacks reads as undefined
AnalysisOf(t, missing) ==
    [summary        |-> IF "summary" \in missing THEN Undef ELSE "S(" \o t \o ")",
     sentiment      |-> IF "sentiment" \in missing THEN Undef ELSE "positive",
     sentimentScore |-> "score(" \o t \o ")",
     topics         |-> "topics(" \o t \o ")",
     actionItems    |-> "actions(" \o t \o ")",
     mood           |-> IF "mood" \in missing THEN Undef ELSE "M(" \o t \o ")"]

\* response.data[0].embedding for an input text
EmbeddingOf(text) == "E(" \o text \o ")"

-----------------------------------------------------------------------------
(* Entry store *)

NewEntry(clock, hasAudio, bodyTranscript) ==
    [id             |-> clock,
     audioPath      |-> IF hasAudio THEN AudioFile ELSE Null,
     transcript     |-> IF Truthy(bodyTranscript) THEN bodyTranscript ELSE Null,
     summary        |-> Null,
     sentiment      |-> Null,
     sentimentScore |-> Undef,
     topics         |-> Undef,
     actionItems    |-> Undef,
     mood           |-> Undef,
     processed      |-> FALSE,
     embedding      |-> Undef,
     transcribedAt  |-> FALSE,
     analyzedAt     |-> FALSE,
     embeddedAt     |-> FALSE,
     updatedAt      |-> FALSE]

\* JSON.stringify(entries): the values of the objects the array holds
Snapshot(arr, heap) == [i \in 1..Len(arr) |-> heap[arr[i]]]

\* entries.find(e => e.id === id): the first match, 0 when there is none
FindEntry(id) ==
    LET hits == {i \in 1..Len(entries) : objs[entries[i]].id = id}
    IN  IF hits = {} THEN 0
        ELSE entries[CHOOSE i \in hits : \A j \in hits : i <= j]

-----------------------------------------------------------------------------
(* Runs *)

\* a provider call in flight
Call(provider, arg) == [provider |-> provider, arg |-> arg]

\* a handler suspended at an await: the entry object its closure holds, the
\* await it is at, and for embed-all the rest of the loop and its counters
Run(kind, ref, pc, call) ==
    [kind |-> kind, ref |-> ref, pc |-> pc, todo |-> <<>>,
     embedded |-> 0, failed |-> 0, calls |-> {call}]

Running == BagToSet(runs)
CanSpawn == BagCardinality(runs) < MaxRuns
Spawn(run) == runs (+) SetToBag({run})
Finish(run) == runs (-) SetToBag({run})
Continue(run, next) == Finish(run) (+) SetToBag({next})

\* run awaits the call c to provider at the await pc of a handler of this kind
Awaiting(run, kind, pc, c, provider) ==
    /\ run.kind = kind
    /\ run.pc = pc
    /\ c \in run.calls
    /\ c.provider = provider

\* the continuation of run after c settled, suspended at pc on a new call
Then(run, c, pc, call) ==
    [run EXCEPT !.pc = pc, !.calls = (@ \ {c}) \cup {call}]

-----------------------------------------------------------------------------
(* callHook of the plugin loader: state of one dispatch *)

\* const results = []; no hook awaited yet
NoDispatch ==
    [pc |-> "idle", i |-> 0, invoked |-> <<>>, outcomes |-> <<>>,
     logged |-> <<>>, results |-> <<>>]

-----------------------------------------------------------------------------
(* loadPlugins of the plugin loader: state of one load *)

\* before loadPlugins is called: nothing listed, nothing logged
NoLoad ==
    [pc |-> "idle", i |-> 0, items |-> <<>>, invalid |-> <<>>,
     initFailed |-> <<>>, failed |-> <<>>]

-----------------------------------------------------------------------------
(* The search and analytics routes: the request served and its response *)

\* no search or analytics request received yet, nothing sent
NoQuery == [route |-> "none", pc |-> "done"]
NoReply == [route |-> "none"]

\* let data = { sessions: [], streaks: { current: 0, longest: 0, lastDate: null } }
EmptyExercise ==
    [sessions |-> <<>>,
     streaks |-> [current |-> 0, longest |-> 0, lastDate |-> Null]]

\* let data = { sources: [], activities: [], goals: { steps: 10000, ... } },
\* a goal being a number as parseInt gives it
EmptyWearable ==
    [sources |-> <<>>,
     activities |-> <<>>,
     goals |-> [steps |-> [num |-> 10000, den |-> 1],
                activeMinutes |-> [num |-> 30, den |-> 1],
                calories |-> [num |-> 2000, den |-> 1]]]

\* a data file: none while fs.existsSync(dataFile) is false, and then
\* the data that save() wrote
NoFile == <<>>

\* no route of a plugin has answered yet
NoAnswer == [route |-> "none", status |-> 0]

\* both plugins as their modules are first loaded, with no data file
NoRecords ==
    /\ exercise = EmptyExercise
    /\ exerciseFile = NoFile
    /\ wearable = EmptyWearable
    /\ wearableFile = NoFile
    /\ answer = NoAnswer

-----------------------------------------------------------------------------
Init ==
    /\ openaiKey \in BOOLEAN
    /\ anthropicKey \in BOOLEAN
    /\ now = 0
    /\ objs = <<>>
    /\ entries = <<>>
    /\ disk = <<>>
    /\ runs = EmptyBag
    /\ resp = 0
    /\ registry = <<>>
    /\ dispatch = NoDispatch
    /\ loader = NoLoad
    /\ query = NoQuery
    /\ reply = NoReply
    /\ NoRecords

-----------------------------------------------------------------------------
(* Field writes of the pipeline stages *)

\* a transcript write that drops the embedding of the text it replaces
SetTranscriptResets(e, t) ==
    [e EXCEPT !.transcript = t, !.transcribedAt = TRUE,
              !.embedding = Undef, !.embeddedAt = FALSE]

\* entry.transcript = transcript; entry.transcribedAt = new Date()...
SetTranscript(e, t) == [e EXCEPT !.transcript = t, !.transcribedAt = TRUE]

\* Object.assign(entry, {summary: analysis.summary, ...}) of the automatic
\* run and of manual transcribe, which also writes processed: true
AssignAnalysisProcessed(e, a) ==
    [e EXCEPT !.summary = a.summary, !.sentiment = a.sentiment,
              !.sentimentScore = a.sentimentScore, !.topics = a.topics,
              !.actionItems = a.actionItems, !.mood = a.mood,
              !.processed = TRUE, !.analyzedAt = TRUE]

\* an analysis write that adds the new topics to those the entry has
AssignAnalysisAccumulates(e, a) ==
    [e EXCEPT !.summary = a.summary, !.sentiment = a.sentiment,
              !.sentimentScore = a.sentimentScore,
              !.topics = IF e.topics = Undef THEN a.topics ELSE e.topics \o a.topics,
              !.actionItems = a.actionItems, !.mood = a.mood,
              !.analyzedAt = TRUE]

\* Object.assign(entry, {...}) of manual analyze: no processed key
AssignAnalysis(e, a) ==
    [e EXCEPT !.summary = a.summary, !.sentiment = a.sentiment,
              !.sentimentScore = a.sentimentScore, !.topics = a.topics,
              !.actionItems = a.actionItems, !.mood = a.mood,
              !.analyzedAt = TRUE]

\* entry.embedding = await generateEmbedding(..); entry.embeddedAt = ...
SetEmbedding(e, v) == [e EXCEPT !.embedding = v, !.embeddedAt = TRUE]

SetProcessed(e) == [e EXCEPT !.processed = TRUE]

\* an analysis failure handler that leaves processed as it was
OnAnalysisFailedKeeps(e) == e

\* an analysis failure handler that also resets the analysis fields
OnAnalysisFailedClears(e) ==
    [SetProcessed(e) EXCEPT !.summary = Null, !.sentiment = Null,
                            !.mood = Undef, !.analyzedAt = FALSE]

\* catch (err) { log(`Analysis failed ...`); entry.processed = true; ... }
\* of the automatic run
OnAnalysisFailed(e) == SetProcessed(e)

\* analysis.summary.substring(0, 40) throws a TypeError on undefined
SummaryLogThrows(a) == a.summary = Undef

-----------------------------------------------------------------------------
(* POST /api/lifelog/ingest and the automatic run it starts *)

\* a guard that ignores whether the request carried audio
AutoTranscribeAlways(hasAudio) == openaiKey

\* if (hasAudio && process.env.OPENAI_API_KEY)
AutoTranscribeWanted(hasAudio) == hasAudio /\ openaiKey

\* clock readings an ingestion may see: the first one reads 1
Clock == IF now = 0 THEN {1} ELSE now..MaxTime

Ingest(clock, hasAudio, bodyTranscript) ==
    LET ref == Len(objs) + 1 IN
    /\ AutoTranscribeWanted(hasAudio) => CanSpawn
    /\ now' = clock
    /\ objs' = Append(objs, NewEntry(clock, hasAudio, bodyTranscript))
    /\ entries' = Append(entries, ref)
    /\ disk' = Snapshot(entries', objs')
    /\ resp' = 200
    /\ IF AutoTranscribeWanted(hasAudio)
       THEN runs' = Spawn(Run("auto", ref, "transcribe", Call("transcribe", AudioFile)))
       ELSE UNCHANGED runs
    /\ UNCHANGED <<plugins, reads, openaiKey, anthropicKey>>

\* a continuation that goes on to the analysis without testing its key
AfterTranscriptionAnalyzes(r, c, t) == Then(r, c, "analyze", Call("analyze", t))

\* a continuation that issues the analysis and the embedding together
AfterTranscriptionBoth(r, c, t) ==
    [r EXCEPT !.pc = "analyze",
              !.calls = (@ \ {c}) \cup {Call("analyze", t), Call("embed", t)}]

\* what the automatic run awaits once the transcript is stored: the analysis
\* if (process.env.ANTHROPIC_API_KEY), else the embedding of the transcript
AfterTranscription(r, c, t) ==
    IF anthropicKey
    THEN Then(r, c, "analyze", Call("analyze", t))
    ELSE Then(r, c, "embedOnly", Call("embed", t))

\* a continuation that looks its entry up by id again instead of keeping
\* the object it created
AutoTranscribedById(r, c, t) ==
    LET found == FindEntry(objs[r.ref].id)
        ref == IF found = 0 THEN r.ref ELSE found
    IN
    /\ Awaiting(r, "auto", "transcribe", c, "transcribe")
    /\ objs' = [objs EXCEPT ![ref] = SetTranscript(@, t)]
    /\ disk' = Snapshot(entries, objs')
    /\ runs' = Continue(r, AfterTranscription(r, c, t))
    /\ UNCHANGED <<plugins, reads, openaiKey, anthropicKey, now, entries, resp>>

\* a continuation whose save puts its entry back when the array no longer
\* holds it
AutoTranscribedRestores(r, c, t) ==
    LET ref == r.ref IN
    /\ Awaiting(r, "auto", "transcribe", c, "transcribe")
    /\ objs' = [objs EXCEPT ![ref] = SetTranscript(@, t)]
    /\ entries' = IF \E k \in DOMAIN entries : entries[k] = ref
                  THEN entries ELSE Append(entries, ref)
    /\ disk' = Snapshot(entries', objs')
    /\ runs' = Continue(r, AfterTranscription(r, c, t))
    /\ UNCHANGED <<plugins, reads, openaiKey, anthropicKey, now, resp>>

\* .then(async transcript => { ... first await
AutoTranscribed(r, c, t) ==
    LET ref == r.ref IN
    /\ Awaiting(r, "auto", "transcribe", c, "transcribe")
    /\ objs' = [objs EXCEPT ![ref] = SetTranscript(@, t)]
    /\ disk' = Snapshot(entries, objs')
    /\ runs' = Continue(r, AfterTranscription(r, c, t))
    /\ UNCHANGED <<plugins, reads, openaiKey, anthropicKey, now, entries, resp>>

\* .catch(err => log(`Transcription failed ...`))
AutoTranscribeFailed(r, c) ==
    /\ Awaiting(r, "auto", "transcribe", c, "transcribe")
    /\ runs' = Finish(r)
    /\ UNCHANGED <<plugins, reads, openaiKey, anthropicKey, now, objs, entries, disk, resp>>

\* the analysis resolved: Object.assign, save, log, then the embedding call
AutoAnalyzed(r, c, missing) ==
    LET ref == r.ref
        analysis == AnalysisOf(c.arg, missing)
        assigned == AssignAnalysisProcessed(objs[ref], analysis)
    IN
    /\ Awaiting(r, "auto", "analyze", c, "analyze")
    /\ IF SummaryLogThrows(analysis)
       THEN \* caught by catch (err): entry.processed = true; saveEntries()
            /\ objs' = [objs EXCEPT ![ref] = OnAnalysisFailed(assigned)]
            /\ runs' = Finish(r)
       ELSE /\ objs' = [objs EXCEPT ![ref] = assigned]
            /\ runs' = Continue(r, Then(r, c, "embed",
                                 Call("embed", Template(c.arg, analysis.summary))))
    /\ disk' = Snapshot(entries, objs')
    /\ UNCHANGED <<plugins, reads, openaiKey, anthropicKey, now, entries, resp>>

AutoAnalyzeFailed(r, c) ==
    LET ref == r.ref IN
    /\ Awaiting(r, "auto", "analyze", c, "analyze")
    /\ objs' = [objs EXCEPT ![ref] = OnAnalysisFailed(@)]
    /\ disk' = Snapshot(entries, objs')
    /\ runs' = Finish(r)
    /\ UNCHANGED <<plugins, reads, openaiKey, anthropicKey, now, entries, resp>>

\* embedding after analysis resolved
AutoEmbedded(r, c) ==
    LET ref == r.ref IN
    /\ Awaiting(r, "auto", "embed", c, "embed")
    /\ objs' = [objs EXCEPT ![ref] = SetEmbedding(@, EmbeddingOf(c.arg))]
    /\ disk' = Snapshot(entries, objs')
    /\ runs' = Finish(r)
    /\ UNCHANGED <<plugins, reads, openaiKey, anthropicKey, now, entries, resp>>

\* catch (embErr) { log(`Embedding failed ...`) }
AutoEmbedFailed(r, c) ==
    /\ Awaiting(r, "auto", "embed", c, "embed")
    /\ runs' = Finish(r)
    /\ UNCHANGED <<plugins, reads, openaiKey, anthropicKey, now, objs, entries, disk, resp>>

\* no Claude key: embedding of the transcript alone resolved
AutoEmbeddedOnly(r, c) ==
    LET ref == r.ref IN
    /\ Awaiting(r, "auto", "embedOnly", c, "embed")
    /\ objs' = [objs EXCEPT ![ref] = SetProcessed(SetEmbedding(@, EmbeddingOf(c.arg)))]
    /\ disk' = Snapshot(entries, objs')
    /\ runs' = Finish(r)
    /\ UNCHANGED <<plugins, reads, openaiKey, anthropicKey, now, entries, resp>>

\* no Claude key: catch (embErr) { log; entry.processed = true; save }
AutoEmbedOnlyFailed(r, c) ==
    LET ref == r.ref IN
    /\ Awaiting(r, "auto", "embedOnly", c, "embed")
    /\ objs' = [objs EXCEPT ![ref] = SetProcessed(@)]
    /\ disk' = Snapshot(entries, objs')
    /\ runs' = Finish(r)
    /\ UNCHANGED <<plugins, reads, openaiKey, anthropicKey, now, entries, resp>>

-----------------------------------------------------------------------------
(* POST /api/lifelog/transcribe/:id *)

\* a manual transcription that runs as a second automatic run
TranscribeRunAsAuto(ref) ==
    Run("auto", ref, "transcribe", Call("transcribe", objs[ref].audioPath))

\* const transcript = await transcribeAudio(entry.audioPath)
TranscribeRun(ref) ==
    Run("mtranscribe", ref, "transcribe", Call("transcribe", objs[ref].audioPath))

ManualTranscribe(id) ==
    LET ref == FindEntry(id) IN
    /\ IF ref = 0
       THEN /\ resp' = 404
            /\ UNCHANGED runs
       ELSE IF ~Truthy(objs[ref].audioPath)
       THEN /\ resp' = 400
            /\ UNCHANGED runs
       ELSE IF ~openaiKey
       THEN /\ resp' = 500
            /\ UNCHANGED runs
       ELSE /\ CanSpawn
            /\ runs' = Spawn(TranscribeRun(ref))
            /\ UNCHANGED resp
    /\ UNCHANGED <<plugins, reads, openaiKey, anthropicKey, now, objs, entries, disk>>

MTranscribed(r, c, t) ==
    LET ref == r.ref IN
    /\ Awaiting(r, "mtranscribe", "transcribe", c, "transcribe")
    /\ IF anthropicKey
       THEN /\ objs' = [objs EXCEPT ![ref] = SetTranscript(@, t)]
            /\ runs' = Continue(r, Then(r, c, "analyze", Call("analyze", t)))
            /\ UNCHANGED resp
       ELSE /\ objs' = [objs EXCEPT ![ref] = SetProcessed(SetTranscript(@, t))]
            /\ runs' = Finish(r)
            /\ resp' = 200
    /\ disk' = Snapshot(entries, objs')
    /\ UNCHANGED <<plugins, reads, openaiKey, anthropicKey, now, entries>>

MTranscribeFailed(r, c) ==
    /\ Awaiting(r, "mtranscribe", "transcribe", c, "transcribe")
    /\ runs' = Finish(r)
    /\ resp' = 500
    /\ UNCHANGED <<plugins, reads, openaiKey, anthropicKey, now, objs, entries, disk>>

MTAnalyzed(r, c, missing) ==
    LET ref == r.ref IN
    /\ Awaiting(r, "mtranscribe", "analyze", c, "analyze")
    /\ objs' = [objs EXCEPT ![ref] = AssignAnalysisProcessed(@, AnalysisOf(c.arg, missing))]
    /\ disk' = Snapshot(entries, objs')
    /\ runs' = Finish(r)
    /\ resp' = 200
    /\ UNCHANGED <<plugins, reads, openaiKey, anthropicKey, now, entries>>

MTAnalyzeFailed(r, c) ==
    LET ref == r.ref IN
    /\ Awaiting(r, "mtranscribe", "analyze", c, "analyze")
    /\ objs' = [objs EXCEPT ![ref] = SetProcessed(@)]
    /\ disk' = Snapshot(entries, objs')
    /\ runs' = Finish(r)
    /\ resp' = 200
    /\ UNCHANGED <<plugins, reads, openaiKey, anthropicKey, now, entries>>

-----------------------------------------------------------------------------
(* POST /api/lifelog/analyze/:id *)

ManualAnalyze(id) ==
    LET ref == FindEntry(id) IN
    /\ IF ref = 0
       THEN /\ resp' = 404
            /\ UNCHANGED runs
       ELSE IF ~Truthy(objs[ref].transcript)
       THEN /\ resp' = 400
            /\ UNCHANGED runs
       ELSE IF ~anthropicKey
       THEN /\ resp' = 500
            /\ UNCHANGED runs
       ELSE /\ CanSpawn
            /\ runs' = Spawn(Run("manalyze", ref, "analyze",
                                 Call("analyze", objs[ref].transcript)))
            /\ UNCHANGED resp
    /\ UNCHANGED <<plugins, reads, openaiKey, anthropicKey, now, objs, entries, disk>>

MAnalyzed(r, c, missing) ==
    LET ref == r.ref
        analysis == AnalysisOf(c.arg, missing)
    IN
    /\ Awaiting(r, "manalyze", "analyze", c, "analyze")
    /\ objs' = [objs EXCEPT ![ref] = AssignAnalysis(@, analysis)]
    /\ disk' = Snapshot(entries, objs')
    /\ runs' = Finish(r)
    /\ resp' = IF SummaryLogThrows(analysis) THEN 500 ELSE 200
    /\ UNCHANGED <<plugins, reads, openaiKey, anthropicKey, now, entries>>

MAnalyzeFailed(r, c) ==
    /\ Awaiting(r, "manalyze", "analyze", c, "analyze")
    /\ runs' = Finish(r)
    /\ resp' = 500
    /\ UNCHANGED <<plugins, reads, openaiKey, anthropicKey, now, objs, entries, disk>>

-----------------------------------------------------------------------------
(* POST /api/lifelog/embed/:id and POST /api/lifelog/embed-all *)

\* entry.summary ? `${entry.transcript} ${entry.summary}` : entry.transcript
TextToEmbed(e) ==
    IF Truthy(e.summary) THEN Template(e.transcript, e.summary) ELSE e.transcript

ManualEmbed(id) ==
    LET ref == FindEntry(id) IN
    /\ IF ref = 0
       THEN /\ resp' = 404
            /\ UNCHANGED runs
       ELSE IF ~Truthy(objs[ref].transcript)
       THEN /\ resp' = 400
            /\ UNCHANGED runs
       ELSE IF ~openaiKey
       THEN /\ resp' = 500
            /\ UNCHANGED runs
       ELSE /\ CanSpawn
            /\ runs' = Spawn(Run("membed", ref, "embed",
                                 Call("embed", TextToEmbed(objs[ref]))))
            /\ UNCHANGED resp
    /\ UNCHANGED <<plugins, reads, openaiKey, anthropicKey, now, objs, entries, disk>>

MEmbedded(r, c) ==
    LET ref == r.ref IN
    /\ Awaiting(r, "membed", "embed", c, "embed")
    /\ objs' = [objs EXCEPT ![ref] = SetEmbedding(@, EmbeddingOf(c.arg))]
    /\ disk' = Snapshot(entries, objs')
    /\ runs' = Finish(r)
    /\ resp' = 200
    /\ UNCHANGED <<plugins, reads, openaiKey, anthropicKey, now, entries>>

MEmbedFailed(r, c) ==
    /\ Awaiting(r, "membed", "embed", c, "embed")
    /\ runs' = Finish(r)
    /\ resp' = 500
    /\ UNCHANGED <<plugins, reads, openaiKey, anthropicKey, now, objs, entries, disk>>

\* entries.filter(e => e.transcript && !e.embedding), as references
RECURSIVE Unembedded(_)
Unembedded(arr) ==
    IF arr = <<>> THEN <<>>
    ELSE IF Truthy(objs[Head(arr)].transcript) /\ ~Truthy(objs[Head(arr)].embedding)
         THEN <<Head(arr)>> \o Unembedded(Tail(arr))
         ELSE Unembedded(Tail(arr))

EmbedAll ==
    LET todo == Unembedded(entries) IN
    /\ IF ~openaiKey
       THEN /\ resp' = 500
            /\ UNCHANGED <<runs, disk>>
       ELSE IF todo = <<>>
       THEN /\ resp' = 200
            /\ disk' = Snapshot(entries, objs)
            /\ UNCHANGED runs
       ELSE /\ CanSpawn
            /\ runs' = Spawn([Run("embedall", Head(todo), "embed",
                                  Call("embed", TextToEmbed(objs[Head(todo)])))
                              EXCEPT !.todo = Tail(todo)])
            /\ UNCHANGED <<resp, disk>>
    /\ UNCHANGED <<plugins, reads, openaiKey, anthropicKey, now, objs, entries>>

\* one iteration of the for loop settled: on to the next entry, or save and answer
EmbedAllNext(r, c, heap, embedded, failed) ==
    LET todo == r.todo IN
    /\ objs' = heap
    /\ IF todo = <<>>
       THEN /\ disk' = Snapshot(entries, heap)
            /\ runs' = Finish(r)
            /\ resp' = 200
       ELSE /\ runs' = Continue(r,
                        [Then(r, c, "embed", Call("embed", TextToEmbed(heap[Head(todo)])))
                         EXCEPT !.ref = Head(todo), !.todo = Tail(todo),
                                !.embedded = embedded, !.failed = failed])
            /\ UNCHANGED <<resp, disk>>

EAEmbedded(r, c) ==
    /\ Awaiting(r, "embedall", "embed", c, "embed")
    /\ EmbedAllNext(r, c, [objs EXCEPT ![r.ref] = SetEmbedding(@, EmbeddingOf(c.arg))],
                    r.embedded + 1, r.failed)
    /\ UNCHANGED <<plugins, reads, openaiKey, anthropicKey, now, entries>>

EAEmbedFailed(r, c) ==
    /\ Awaiting(r, "embedall", "embed", c, "embed")
    /\ EmbedAllNext(r, c, objs, r.embedded, r.failed + 1)
    /\ UNCHANGED <<plugins, reads, openaiKey, anthropicKey, now, entries>>

-----------------------------------------------------------------------------
(* GET /api/lifelog/search/semantic *)

\* req.query.q: absent, or a query text
Queries == {Undef, "a"}

\* the handler up to await generateEmbedding(q); it reads the store after
\* the await and writes nothing
SemanticSearch(q) ==
    /\ IF ~Truthy(q)
       THEN /\ resp' = 400
            /\ UNCHANGED runs
       ELSE IF ~openaiKey
       THEN /\ resp' = 500
            /\ UNCHANGED runs
       ELSE /\ CanSpawn
            /\ runs' = Spawn(Run("search", 0, "embed", Call("embed", q)))
            /\ UNCHANGED resp
    /\ UNCHANGED <<plugins, reads, openaiKey, anthropicKey, now, objs, entries, disk>>

\* the query embedding resolved: score, filter, sort, res.json(...)
Searched(r, c) ==
    /\ Awaiting(r, "search", "embed", c, "embed")
    /\ runs' = Finish(r)
    /\ resp' = 200
    /\ UNCHANGED <<plugins, reads, openaiKey, anthropicKey, now, objs, entries, disk>>

\* catch (err) { res.status(500) }
SearchFailed(r, c) ==
    /\ Awaiting(r, "search", "embed", c, "embed")
    /\ runs' = Finish(r)
    /\ resp' = 500
    /\ UNCHANGED <<plugins, reads, openaiKey, anthropicKey, now, objs, entries, disk>>

-----------------------------------------------------------------------------
(* PATCH and DELETE /api/lifelog/entries/:id *)

\* request bodies of the partial-field update
PatchBodies == << [transcript |-> "b"], [transcript |-> Null] >>

\* Object.assign(entry, req.body, { updatedAt: ... })
Patch(e, body) ==
    [f \in DOMAIN e |-> IF f = "updatedAt" THEN TRUE
                        ELSE IF f \in DOMAIN body THEN body[f] ELSE e[f]]

Update(id, body) ==
    LET ref == FindEntry(id) IN
    /\ IF ref = 0
       THEN /\ resp' = 404
            /\ UNCHANGED <<objs, disk>>
       ELSE /\ objs' = [objs EXCEPT ![ref] = Patch(@, body)]
            /\ disk' = Snapshot(entries, objs')
            /\ resp' = 200
    /\ UNCHANGED <<plugins, reads, openaiKey, anthropicKey, now, entries, runs>>

\* entries.splice(idx): removes the entry and every entry after it
SpliceRest(arr, ref) ==
    SubSeq(arr, 1, (CHOOSE k \in 1..Len(arr) : arr[k] = ref) - 1)

\* entries.splice(idx, 1)
Splice(arr, ref) == SelectSeq(arr, LAMBDA x : x # ref)

\* a delete without the idx === -1 test: entries.splice(-1, 1) removes
\* the last entry
DeleteUnchecked(id) ==
    LET ref == FindEntry(id) IN
    /\ entries' = IF ref = 0 THEN SubSeq(entries, 1, Len(entries) - 1)
                            ELSE Splice(entries, ref)
    /\ disk' = Snapshot(entries', objs)
    /\ resp' = 200
    /\ UNCHANGED <<plugins, reads, openaiKey, anthropicKey, now, objs, runs>>

Delete(id) ==
    LET ref == FindEntry(id) IN
    /\ IF ref = 0
       THEN /\ resp' = 404
            /\ UNCHANGED <<entries, disk>>
       ELSE /\ entries' = Splice(entries, ref)
            /\ disk' = Snapshot(entries', objs)
            /\ resp' = 200
    /\ UNCHANGED <<plugins, reads, openaiKey, anthropicKey, now, objs, runs>>

-----------------------------------------------------------------------------
\* ids a request may name: those the clock can have given, and one more
Ids == 1..MaxTime

Next ==
    \/ \E clock \in Clock, hasAudio \in BOOLEAN, t \in BodyTexts :
          Len(objs) < MaxEntries /\ Ingest(clock, hasAudio, t)
    \/ \E id \in Ids : ManualTranscribe(id)
    \/ \E id \in Ids : ManualAnalyze(id)
    \/ \E id \in Ids : ManualEmbed(id)
    \/ EmbedAll
    \/ \E id \in Ids, i \in DOMAIN PatchBodies : Update(id, PatchBodies[i])
    \/ \E id \in Ids : Delete(id)
    \/ \E r \in Running : \E c \in r.calls, t \in Texts : AutoTranscribed(r, c, t)
    \/ \E r \in Running : \E c \in r.calls : AutoTranscribeFailed(r, c)
    \/ \E r \in Running : \E c \in r.calls, m \in Shapes : AutoAnalyzed(r, c, m)
    \/ \E r \in Running : \E c \in r.calls : AutoAnalyzeFailed(r, c)
    \/ \E r \in Running : \E c \in r.calls : AutoEmbedded(r, c)
    \/ \E r \in Running : \E c \in r.calls : AutoEmbedFailed(r, c)
    \/ \E r \in Running : \E c \in r.calls : AutoEmbeddedOnly(r, c)
    \/ \E r \in Running : \E c \in r.calls : AutoEmbedOnlyFailed(r, c)
    \/ \E r \in Running : \E c \in r.calls, t \in Texts : MTranscribed(r, c, t)
    \/ \E r \in Running : \E c \in r.calls : MTranscribeFailed(r, c)
    \/ \E r \in Running : \E c \in r.calls, m \in Shapes : MTAnalyzed(r, c, m)
    \/ \E r \in Running : \E c \in r.calls : MTAnalyzeFailed(r, c)
    \/ \E r \in Running : \E c \in r.calls, m \in Shapes : MAnalyzed(r, c, m)
    \/ \E r \in Running : \E c \in r.calls : MAnalyzeFailed(r, c)
    \/ \E r \in Running : \E c \in r.calls : MEmbedded(r, c)
    \/ \E r \in Running : \E c \in r.calls : MEmbedFailed(r, c)
    \/ \E r \in Running : \E c \in r.calls : EAEmbedded(r, c)
    \/ \E r \in Running : \E c \in r.calls : EAEmbedFailed(r, c)
    \/ \E q \in Queries : SemanticSearch(q)
    \/ \E r \in Running : \E c \in r.calls : Searched(r, c)
    \/ \E r \in Running : \E c \in r.calls : SearchFailed(r, c)

Spec == Init /\ [][Next]_vars

-----------------------------------------------------------------------------
(* The store with two entries: both providers configured, one           *)
(* transcription text, complete analysis results; ingestion, update (of  *)
(* the transcript or of the id), delete, the automatic run and the       *)
(* manual transcribe and analyze requests, each addressed to one entry.  *)

MaxEntries2 == 2

\* bodies of PATCH /api/lifelog/entries/:id in the two-entry store
PatchBodies2 == << [transcript |-> "a"] >> \o [v \in Ids |-> [id |-> v]]

Init2 == Init /\ openaiKey /\ anthropicKey

Next2 ==
    \/ \E clock \in Clock, hasAudio \in BOOLEAN :
          Len(objs) < MaxEntries2 /\ Ingest(clock, hasAudio, "a")
    \/ \E id \in Ids : ManualTranscribe(id)
    \/ \E id \in Ids : ManualAnalyze(id)
    \/ \E id \in Ids, i \in DOMAIN PatchBodies2 : Update(id, PatchBodies2[i])
    \/ \E id \in Ids : Delete(id)
    \/ \E r \in Running : \E c \in r.calls : AutoTranscribed(r, c, "a")
    \/ \E r \in Running : \E c \in r.calls : AutoTranscribeFailed(r, c)
    \/ \E r \in Running : \E c \in r.calls : AutoAnalyzed(r, c, {})
    \/ \E r \in Running : \E c \in r.calls : AutoAnalyzeFailed(r, c)
    \/ \E r \in Running : \E c \in r.calls : AutoEmbedded(r, c)
    \/ \E r \in Running : \E c \in r.calls : AutoEmbedFailed(r, c)
    \/ \E r \in Running : \E c \in r.calls : MTranscribed(r, c, "a")
    \/ \E r \in Running : \E c \in r.calls : MTranscribeFailed(r, c)
    \/ \E r \in Running : \E c \in r.calls : MTAnalyzed(r, c, {})
    \/ \E r \in Running : \E c \in r.calls : MTAnalyzeFailed(r, c)
    \/ \E r \in Running : \E c \in r.calls : MAnalyzed(r, c, {})
    \/ \E r \in Running : \E c \in r.calls : MAnalyzeFailed(r, c)

Spec2 == Init2 /\ [][Next2]_vars

-----------------------------------------------------------------------------
(* The store with two entries and the embedding requests: the embedding  *)
(* provider configured and the analysis provider not; ingestion with a   *)
(* transcript or with audio, the automatic run (transcription, then the  *)
(* embedding of the transcript), manual embed, embed-all and delete.     *)

MaxEntries3 == 2

Init3 == Init /\ openaiKey /\ ~anthropicKey

Next3 ==
    \/ \E clock \in Clock, hasAudio \in BOOLEAN :
          /\ Len(objs) < MaxEntries3
          /\ Ingest(clock, hasAudio, IF hasAudio THEN Undef ELSE "a")
    \/ \E id \in Ids : ManualEmbed(id)
    \/ EmbedAll
    \/ \E id \in Ids : Delete(id)
    \/ \E r \in Running : \E c \in r.calls : AutoTranscribed(r, c, "a")
    \/ \E r \in Running : \E c \in r.calls : AutoTranscribeFailed(r, c)
    \/ \E r \in Running : \E c \in r.calls : AutoEmbeddedOnly(r, c)
    \/ \E r \in Running : \E c \in r.calls : AutoEmbedOnlyFailed(r, c)
    \/ \E r \in Running : \E c \in r.calls : MEmbedded(r, c)
    \/ \E r \in Running : \E c \in r.calls : MEmbedFailed(r, c)
    \/ \E r \in Running : \E c \in r.calls : EAEmbedded(r, c)
    \/ \E r \in Running : \E c \in r.calls : EAEmbedFailed(r, c)

Spec3 == Init3 /\ [][Next3]_vars

-----------------------------------------------------------------------------
(* callHook(hookName, ...args) of the plugin loader                        *)

MaxPlugins == 3

\* the state of server.js, which callHook does not touch
pipeline == <<openaiKey, anthropicKey, now, objs, entries, disk, runs, resp,
             query, reply, records>>

\* plugin.name of the k-th loaded plugin
PluginName(k) == "p" \o ToString(k)

\* registries: up to MaxPlugins plugins, each with or without a function at
\* hooks[hookName]
Registries ==
    UNION {{[k \in 1..n |-> [name |-> PluginName(k), hook |-> f[k]]] :
               f \in [1..n -> BOOLEAN]} : n \in 0..MaxPlugins}

\* what a hook may resolve with: nothing, null, or a value of its own
HookValue(name) == "r(" \o name \o ")"
HookResults(name) == {Undef, Null, HookValue(name)}

\* what a hook may throw or reject with: an Error object, or no value at
\* all (throw undefined, Promise.reject())
Thrown == {"Error", Undef}

\* for (const plugin of registry) if (plugin.hooks && typeof
\* plugin.hooks[hookName] === 'function'): the next plugin from position k
\* on that implements the hook, 0 when there is none
NextHook(k) ==
    LET later == {j \in k..Len(registry) : registry[j].hook}
    IN  IF later = {} THEN 0 ELSE CHOOSE j \in later : \A l \in later : j <= l

\* the loop goes on from position k: it awaits the next hook, or returns
Advance(d, k) ==
    LET j == NextHook(k) IN
    IF j = 0
    THEN [d EXCEPT !.pc = "returned", !.i = 0]
    ELSE [d EXCEPT !.pc = "await", !.i = j,
                   !.invoked = Append(@, registry[j].name)]

\* if (result !== undefined) results.push({ plugin: plugin.name, result })
Collect(results, name, result) ==
    IF result # Undef THEN Append(results, [plugin |-> name, result |-> result])
    ELSE results

\* a call of callHook, up to its first await
CallHook ==
    /\ dispatch.pc # "await"
    /\ dispatch' = Advance(NoDispatch, 1)
    /\ UNCHANGED <<registry, loader, pipeline>>

\* const result = await plugin.hooks[hookName](...args) resolved
HookReturned(result) ==
    LET name == registry[dispatch.i].name
        d == [dispatch EXCEPT
                 !.outcomes = Append(@, [plugin |-> name, threw |-> FALSE, value |-> result]),
                 !.results = Collect(@, name, result)]
    IN
    /\ dispatch.pc = "await"
    /\ result \in HookResults(name)
    /\ dispatch' = Advance(d, dispatch.i + 1)
    /\ UNCHANGED <<registry, loader, pipeline>>

\* catch (err) { console.error(`...`, err.message) }: reading err.message
\* of undefined throws a TypeError out of the catch block, and callHook
\* rejects
HookThrew(err) ==
    LET name == registry[dispatch.i].name
        d == [dispatch EXCEPT
                 !.outcomes = Append(@, [plugin |-> name, threw |-> TRUE, value |-> err])]
    IN
    /\ dispatch.pc = "await"
    /\ dispatch' = IF err = Undef
                   THEN [d EXCEPT !.pc = "rejected"]
                   ELSE Advance([d EXCEPT !.logged = Append(@, name)], dispatch.i + 1)
    /\ UNCHANGED <<registry, loader, pipeline>>

HookInit ==
    /\ openaiKey = FALSE
    /\ anthropicKey = FALSE
    /\ now = 0
    /\ objs = <<>>
    /\ entries = <<>>
    /\ disk = <<>>
    /\ runs = EmptyBag
    /\ resp = 0
    /\ registry \in Registries
    /\ dispatch = NoDispatch
    /\ loader = NoLoad
    /\ query = NoQuery
    /\ reply = NoReply
    /\ NoRecords

HookNext ==
    \/ CallHook
    \/ \E v \in {Undef, Null} \cup {HookValue(PluginName(k)) : k \in 1..MaxPlugins} :
          HookReturned(v)
    \/ \E err \in Thrown : HookThrew(err)

HookSpec == HookInit /\ [][HookNext]_vars

-----------------------------------------------------------------------------
(* loadPlugins(pluginsDir, context) of the plugin loader                   *)

MaxItems == 3

\* typeof v === 'function'
Function == "function"
Callable(v) == v = Function

\* an item of the plugins directory: a plain file, a folder without
\* index.js, a folder whose index.js throws when it is required, or a folder
\* whose index.js exports a plugin object with these properties
Item(kind, name, label, version, routes, init) ==
    [kind |-> kind, name |-> name, label |-> label, version |-> version,
     routes |-> routes, init |-> init]

\* the items the k-th place of the directory may hold: a well-formed plugin
\* and the ways it can fall short, one at a time
ItemsAt(k) ==
    LET n == PluginName(k) IN
    {Item("file", Undef, Undef, Undef, Undef, Undef),
     Item("noindex", Undef, Undef, Undef, Undef, Undef),
     Item("throws", Undef, Undef, Undef, Undef, Undef),
     Item("plugin", n, "label", "1.0.0", Undef, Undef),
     Item("plugin", n, "label", "1.0.0", Function, Function),
     Item("plugin", n, "label", "1.0.0", Null, Function),
     Item("plugin", n, "label", "1.0.0", "object", Undef),
     Item("plugin", Undef, "label", "1.0.0", Undef, Function),
     Item("plugin", "", "label", "1.0.0", Function, Undef),
     Item("plugin", n, Undef, "1.0.0", Undef, Undef),
     Item("plugin", n, "label", Undef, Undef, Function)}

\* fs.readdirSync(absoluteDir): up to MaxItems items
Directories ==
    UNION {{d \in [1..n -> UNION {ItemsAt(k) : k \in 1..n}] :
               \A k \in 1..n : d[k] \in ItemsAt(k)} : n \in 0..MaxItems}

\* require(indexPath): the object the folder's index.js exports
Exports(item) ==
    [name |-> item.name, label |-> item.label, version |-> item.version,
     routes |-> item.routes, init |-> item.init]

\* validatePlugin(plugin, folderName)
validatePlugin(plugin) ==
    /\ \A field \in {"name", "label", "version"} : Truthy(plugin[field])
    /\ ~(Truthy(plugin.routes) /\ ~Callable(plugin.routes))

\* for (const item of items) from the k-th item on, up to the first
\* await plugin.init(context) or to return registry: what the registry and
\* the load are then
RECURSIVE LoadFrom(_, _, _)
LoadFrom(reg, ld, k) ==
    IF k > Len(ld.items)
    THEN [registry |-> reg, loader |-> [ld EXCEPT !.pc = "returned", !.i = 0]]
    ELSE LET item == ld.items[k] IN
         IF item.kind \in {"file", "noindex"}
         THEN LoadFrom(reg, ld, k + 1)
         ELSE IF item.kind = "throws"
         THEN LoadFrom(reg, [ld EXCEPT !.failed = Append(@, k)], k + 1)
         ELSE IF ~validatePlugin(Exports(item))
         THEN LoadFrom(reg, [ld EXCEPT !.invalid = Append(@, k)], k + 1)
         ELSE IF Callable(item.init)
         THEN [registry |-> reg, loader |-> [ld EXCEPT !.pc = "await", !.i = k]]
         ELSE LoadFrom(Append(reg, Exports(item)), ld, k + 1)

\* a call of loadPlugins, up to its first await
LoadPlugins ==
    LET s == LoadFrom(registry, loader, 1) IN
    /\ loader.pc = "idle"
    /\ registry' = s.registry
    /\ loader' = s.loader
    /\ UNCHANGED <<dispatch, pipeline>>

\* await plugin.init(context) resolved: registry.push(plugin), next item
InitResolved ==
    LET k == loader.i
        s == LoadFrom(Append(registry, Exports(loader.items[k])), loader, k + 1)
    IN
    /\ loader.pc = "await"
    /\ registry' = s.registry
    /\ loader' = s.loader
    /\ UNCHANGED <<dispatch, pipeline>>

\* plugin.init threw or rejected: catch (err) { console.error(`...`,
\* err.message) }; reading err.message of undefined throws a TypeError out
\* of the catch block, and loadPlugins rejects
InitRejected(err) ==
    LET k == loader.i
        ld == [loader EXCEPT !.initFailed = Append(@, k)]
        s == LoadFrom(registry, [ld EXCEPT !.failed = Append(@, k)], k + 1)
    IN
    /\ loader.pc = "await"
    /\ IF err = Undef
       THEN /\ loader' = [ld EXCEPT !.pc = "rejected"]
            /\ UNCHANGED registry
       ELSE /\ registry' = s.registry
            /\ loader' = s.loader
    /\ UNCHANGED <<dispatch, pipeline>>

LoadInit ==
    /\ openaiKey = FALSE
    /\ anthropicKey = FALSE
    /\ now = 0
    /\ objs = <<>>
    /\ entries = <<>>
    /\ disk = <<>>
    /\ runs = EmptyBag
    /\ resp = 0
    /\ registry = <<>>
    /\ dispatch = NoDispatch
    /\ loader \in {[NoLoad EXCEPT !.items = d] : d \in Directories}
    /\ query = NoQuery
    /\ reply = NoReply
    /\ NoRecords

LoadNext ==
    \/ LoadPlugins
    \/ InitResolved
    \/ \E err \in Thrown : InitRejected(err)

LoadSpec == LoadInit /\ [][LoadNext]_vars

-----------------------------------------------------------------------------
(* Values of the search and analytics routes                               *)
(*                                                                         *)
(* A text the routes inspect (a query parameter, a topic, a transcript)    *)
(* is the sequence of its characters.  A number is the fraction num / den  *)
(* with den > 0; 0 / 0 is NaN.  A time stamp is the hour it falls in,      *)
(* counted from the epoch in UTC, so that 24 consecutive hours make a      *)
(* calendar day and the date of a time stamp is the number of its day.     *)
(* An entry is a record of the properties the routes read; a property the  *)
(* entry lacks, or that holds null, is absent from the record.  A response *)
(* is the record of its body, with its status.                             *)

\* the decimal digits, the digit at place k + 1 having value k
Digits == <<"0", "1", "2", "3", "4", "5", "6", "7", "8", "9">>
IsDigit(c) == \E k \in DOMAIN Digits : Digits[k] = c
DigitValue(c) == (CHOOSE k \in DOMAIN Digits : Digits[k] = c) - 1

Number(num, den) == [num |-> num, den |-> den]
NaN == Number(0, 0)
IsNaN(x) == x.den = 0

\* a / b, a + b, a >= b, a < b on numbers; a comparison with NaN is false
Div(a, b) ==
    IF IsNaN(a) \/ IsNaN(b) \/ b.num = 0 THEN NaN
    ELSE IF b.num > 0 THEN Number(a.num * b.den, a.den * b.num)
    ELSE Number(-(a.num * b.den), -(a.den * b.num))
Plus(a, b) ==
    IF IsNaN(a) \/ IsNaN(b) THEN NaN
    ELSE Number(a.num * b.den + b.num * a.den, a.den * b.den)
Geq(a, b) == ~IsNaN(a) /\ ~IsNaN(b) /\ a.num * b.den >= b.num * a.den
Less(a, b) == ~IsNaN(a) /\ ~IsNaN(b) /\ a.num * b.den < b.num * a.den
Same(a, b) == Geq(a, b) /\ Geq(b, a)

\* the number of leading digits of a text
RECURSIVE DigitRun(_)
DigitRun(s) ==
    IF s # <<>> /\ IsDigit(Head(s)) THEN 1 + DigitRun(Tail(s)) ELSE 0

\* the value of a run of digits, most significant first
RECURSIVE Decimal(_)
Decimal(s) ==
    IF s = <<>> THEN 0
    ELSE 10 * Decimal(SubSeq(s, 1, Len(s) - 1)) + DigitValue(s[Len(s)])

RECURSIVE Power10(_)
Power10(n) == IF n = 0 THEN 1 ELSE 10 * Power10(n - 1)

\* what is left of a text after an optional sign, and the sign
Unsigned(s) == IF s # <<>> /\ Head(s) \in {"-", "+"} THEN Tail(s) ELSE s
Sign(s) == IF s # <<>> /\ Head(s) = "-" THEN -1 ELSE 1

\* parseInt(s): an optional sign and the digits that follow it, up to the
\* first character that is not a digit; NaN when there is no digit
parseInt(s) ==
    LET u == Unsigned(s)
        n == DigitRun(u)
    IN  IF n = 0 THEN NaN ELSE Number(Sign(s) * Decimal(SubSeq(u, 1, n)), 1)

\* parseFloat(s): an optional sign, digits, and after a point more digits;
\* NaN when neither part has a digit
parseFloat(s) ==
    LET u == Unsigned(s)
        n == DigitRun(u)
        rest == SubSeq(u, n + 1, Len(u))
        m == IF rest # <<>> /\ Head(rest) = "." THEN DigitRun(Tail(rest)) ELSE 0
        whole == Decimal(SubSeq(u, 1, n))
        frac == Decimal(SubSeq(rest, 2, m + 1))
    IN  IF n + m = 0 THEN NaN
        ELSE Number(Sign(s) * (whole * Power10(m) + frac), Power10(m))

\* Array.prototype.slice(0, end) for an end that ToIntegerOrInfinity turns
\* into the integer n (NaN into 0): a negative end counts from the back
Slice(seq, n) ==
    LET end == IF n < 0 THEN Len(seq) + n ELSE n
        last == IF end < 0 THEN 0 ELSE IF end > Len(seq) THEN Len(seq) ELSE end
    IN  SubSeq(seq, 1, last)

\* Array.prototype.sort(compare) of seq, before[i][j] telling that compare
\* puts seq[i] ahead of seq[j]: elements it does not tell apart keep their
\* order (the sort is stable)
Sort(seq, before) ==
    LET n == Len(seq)
        pos(i) == 1 + Cardinality({j \in 1..n : before[j][i]})
                    + Cardinality({j \in 1..(i - 1) :
                          ~before[j][i] /\ ~before[i][j]})
    IN  [p \in 1..n |-> seq[CHOOSE i \in 1..n : pos(i) = p]]

\* obj[key] = (obj[key] || 0) + 1 for each key of a list in turn, the
\* object being empty before: its keys in order of creation, with counts
RECURSIVE CountKeys(_)
CountKeys(keys) ==
    IF keys = <<>> THEN <<>>
    ELSE LET key == keys[Len(keys)]
             before == CountKeys(SubSeq(keys, 1, Len(keys) - 1))
             at == {k \in DOMAIN before : before[k].key = key}
         IN  IF at = {} THEN Append(before, [key |-> key, count |-> 1])
             ELSE [k \in DOMAIN before |->
                      IF k \in at THEN [before[k] EXCEPT !.count = @ + 1]
                      ELSE before[k]]

\* a property key that is an array index: the canonical decimal text of an
\* integer from 0 to 2^32 - 2 (here: of at most nine digits)
IsArrayIndex(key) ==
    /\ key # <<>>
    /\ DigitRun(key) = Len(key)
    /\ Len(key) = 1 \/ Head(key) # "0"
    /\ Len(key) <= 9

\* Object.entries(obj) of an object with these keys in order of creation:
\* the array indices first, in ascending numeric order, then the other
\* keys in order of creation
ObjectEntries(props) ==
    LET indices == SelectSeq(props, LAMBDA p : IsArrayIndex(p.key))
    IN  Sort(indices, [i \in DOMAIN indices |-> [j \in DOMAIN indices |->
                          Decimal(indices[i].key) < Decimal(indices[j].key)]])
        \o SelectSeq(props, LAMBDA p : ~IsArrayIndex(p.key))

-----------------------------------------------------------------------------
(* GET /api/lifelog/search/semantic with its query and its response body,  *)
(* over a store whose embeddings are vectors                               *)

MaxStored == 3

\* req.query[name], or the default of the destructuring when it is absent
Param(req, name, default) == IF name \in DOMAIN req THEN req[name] ELSE default

\* { ...e, [name]: value } and const { [name]: _, ...rest } = e
Spread(e, name, value) ==
    [f \in DOMAIN e \cup {name} |-> IF f = name THEN value ELSE e[f]]
Omit(e, name) == [f \in DOMAIN e \ {name} |-> e[f]]

\* Math.sqrt of a perfect square
Sqrt(n) == CHOOSE r \in 0..n : r * r = n

\* the sum of f[1] .. f[n]
RECURSIVE Sum(_, _)
Sum(f, n) == IF n = 0 THEN 0 ELSE Sum(f, n - 1) + f[n]

\* cosineSimilarity(a, b); with a zero vector it is 0 / 0
cosineSimilarity(a, b) ==
    LET dotProduct == Sum([i \in DOMAIN a |-> a[i] * b[i]], Len(a))
        normA == Sum([i \in DOMAIN a |-> a[i] * a[i]], Len(a))
        normB == Sum([i \in DOMAIN a |-> b[i] * b[i]], Len(a))
    IN  Div(Number(dotProduct, 1), Number(Sqrt(normA) * Sqrt(normB), 1))

\* the end of slice(0, parseInt(limit)): NaN counts as 0
SliceEnd(x) == IF IsNaN(x) THEN 0 ELSE x.num

\* every entry, one without an embedding standing at a right angle to the
\* first axis: scored as zero against a query along that axis
entriesDefaulted(store) ==
    [k \in DOMAIN store |->
        IF "embedding" \in DOMAIN store[k] THEN store[k]
        ELSE Spread(store[k], "embedding", <<0, 1>>)]

\* entries.filter(e => e.embedding)
entriesWithEmbeddings(store) ==
    SelectSeq(store, LAMBDA e : "embedding" \in DOMAIN e)

\* entriesWithEmbeddings.map(e => ({ ...e, similarity: ... }))
Scored(embedded, queryEmbedding) ==
    [k \in DOMAIN embedded |->
        Spread(embedded[k], "similarity",
               cosineSimilarity(queryEmbedding, embedded[k].embedding))]

\* a filter that keeps what lies at or below the threshold
AtOrBelow(scored, threshold) ==
    SelectSeq(scored, LAMBDA e : Geq(parseFloat(threshold), e.similarity))

\* .filter(e => e.similarity >= parseFloat(threshold))
AtOrAbove(scored, threshold) ==
    SelectSeq(scored, LAMBDA e : Geq(e.similarity, parseFloat(threshold)))

\* no sort: the entries stay in order of insertion
ByInsertion(kept) == kept

\* .sort((a, b) => b.similarity - a.similarity)
BySimilarity(kept) ==
    Sort(kept, [i \in DOMAIN kept |-> [j \in DOMAIN kept |->
                   Less(kept[j].similarity, kept[i].similarity)]])

\* .map(e => { const { embedding, ...rest } = e; return rest; })
WithoutEmbedding(sliced) == [k \in DOMAIN sliced |-> Omit(sliced[k], "embedding")]

\* the records of the response
Ranked(store, queryEmbedding, threshold, limit) ==
    LET scored == Scored(entriesWithEmbeddings(store), queryEmbedding)
        sorted == BySimilarity(AtOrAbove(scored, threshold))
    IN  WithoutEmbedding(Slice(sorted, SliceEnd(parseInt(limit))))

\* const { q, limit = 10, threshold = 0.3 } = req.query
Limit(req) == Param(req, "limit", <<"1", "0">>)
Threshold(req) == Param(req, "threshold", <<"0", ".", "3">>)

\* the handler up to await generateEmbedding(q)
SemanticSearchRequest(req) ==
    /\ query.pc = "done"
    /\ IF Param(req, "q", <<>>) = <<>>
       THEN /\ reply' = [route |-> "semantic", status |-> 400,
                         error |-> "Query required"]
            /\ query' = [route |-> "semantic", pc |-> "done", req |-> req]
       ELSE IF ~openaiKey
       THEN /\ reply' = [route |-> "semantic", status |-> 500,
                         error |-> "OPENAI_API_KEY not configured"]
            /\ query' = [route |-> "semantic", pc |-> "done", req |-> req]
       ELSE /\ query' = [route |-> "semantic", pc |-> "embed", req |-> req]
            /\ reply' = NoReply
    /\ UNCHANGED <<plugins, openaiKey, anthropicKey, now, objs, entries, disk, runs, resp>>

\* a handler that scores the stored entry objects themselves, e.similarity
\* assigned in place, and returns them as they are
SemanticSearchScoredInPlace(queryEmbedding) ==
    LET scored == [i \in DOMAIN objs |->
                      IF "embedding" \in DOMAIN objs[i]
                      THEN Spread(objs[i], "similarity",
                                  cosineSimilarity(queryEmbedding, objs[i].embedding))
                      ELSE objs[i]]
    IN
    /\ query.route = "semantic"
    /\ query.pc = "embed"
    /\ query' = [query EXCEPT !.pc = "done"] @@ [embedding |-> queryEmbedding]
    /\ objs' = scored
    /\ reply' = [route |-> "semantic", status |-> 200,
                 results |-> entriesWithEmbeddings(Snapshot(entries, scored))]
    /\ UNCHANGED <<plugins, openaiKey, anthropicKey, now, entries, disk, runs, resp>>

\* the query embedding resolved: score, filter, sort, truncate, res.json
SemanticSearchRanked(queryEmbedding) ==
    LET store == Snapshot(entries, objs)
        req == query.req
    IN
    /\ query.route = "semantic"
    /\ query.pc = "embed"
    /\ query' = [query EXCEPT !.pc = "done"] @@ [embedding |-> queryEmbedding]
    /\ reply' = IF entriesWithEmbeddings(store) = <<>>
                THEN [route |-> "semantic", status |-> 200, results |-> <<>>,
                      message |-> "No embedded entries yet"]
                ELSE [route |-> "semantic", status |-> 200,
                      results |-> Ranked(store, queryEmbedding, Threshold(req), Limit(req)),
                      query |-> req.q,
                      totalEmbedded |-> Len(entriesWithEmbeddings(store))]
    /\ UNCHANGED <<plugins, openaiKey, anthropicKey, now, objs, entries, disk, runs, resp>>

\* generateEmbedding(q) rejected: catch (err) { res.status(500) }
SemanticSearchError ==
    /\ query.route = "semantic"
    /\ query.pc = "embed"
    /\ query' = [query EXCEPT !.pc = "done"]
    /\ reply' = [route |-> "semantic", status |-> 500, error |-> "provider error"]
    /\ UNCHANGED <<plugins, openaiKey, anthropicKey, now, objs, entries, disk, runs, resp>>

-----------------------------------------------------------------------------
(* GET /api/lifelog/search                                                 *)

\* String.prototype.toLowerCase on the letters the texts use
toLowerCase(s) ==
    [k \in DOMAIN s |-> IF s[k] = "A" THEN "a" ELSE IF s[k] = "B" THEN "b" ELSE s[k]]

\* String.prototype.includes
includes(s, sub) ==
    \E i \in 0..(Len(s) - Len(sub)) : SubSeq(s, i + 1, i + Len(sub)) = sub

\* e[name] && e[name].toLowerCase().includes(q.toLowerCase())
Mentions(e, name, q) ==
    /\ name \in DOMAIN e
    /\ e[name] # <<>>
    /\ includes(toLowerCase(e[name]), toLowerCase(q))

\* the handler: a copy of the array, narrowed by each parameter given
KeywordSearch(req) ==
    LET all == Snapshot(entries, objs)
        since == IF "from" \in DOMAIN req
                 THEN SelectSeq(all, LAMBDA e : e.timestamp >= req.from) ELSE all
        until == IF "to" \in DOMAIN req
                 THEN SelectSeq(since, LAMBDA e : e.timestamp <= req.to) ELSE since
        inContext == IF Param(req, "context", <<>>) # <<>>
                     THEN SelectSeq(until, LAMBDA e : "context" \in DOMAIN e
                                                   /\ e.context = req.context)
                     ELSE until
        results == IF Param(req, "q", <<>>) # <<>>
                   THEN SelectSeq(inContext, LAMBDA e : \/ Mentions(e, "transcript", req.q)
                                                     \/ Mentions(e, "summary", req.q))
                   ELSE inContext
    IN
    /\ query.pc = "done"
    /\ query' = [route |-> "search", pc |-> "done", req |-> req]
    /\ reply' = [route |-> "search", status |-> 200, results |-> results]
    /\ UNCHANGED <<plugins, openaiKey, anthropicKey, now, objs, entries, disk, runs, resp>>

-----------------------------------------------------------------------------
(* detectPatterns(entries, days) and GET /api/lifelog/patterns             *)

HoursPerDay == 24

\* e.timestamp.split('T')[0], new Date(e.timestamp).getHours() and
\* .getDay() in UTC; the epoch fell on a Thursday
Day(timestamp) == timestamp \div HoursPerDay
Hour(timestamp) == timestamp % HoursPerDay
DayOfWeek(timestamp) == (Day(timestamp) + 4) % 7

dayNames ==
    <<"Sunday", "Monday", "Tuesday", "Wednesday", "Thursday", "Friday", "Saturday">>

\* String(n) of a natural number: its decimal text
RECURSIVE String(_)
String(n) ==
    IF n < 10 THEN <<Digits[n + 1]>> ELSE Append(String(n \div 10), Digits[(n % 10) + 1])

\* list.flatMap(e => e[name] || []) and list.filter(e => e[name]).map(e => e[name])
RECURSIVE FlatMap(_, _)
FlatMap(list, name) ==
    IF list = <<>> THEN <<>>
    ELSE (IF name \in DOMAIN Head(list) THEN Head(list)[name] ELSE <<>>)
         \o FlatMap(Tail(list), name)

RECURSIVE Pluck(_, _)
Pluck(list, name) ==
    IF list = <<>> THEN <<>>
    ELSE (IF name \in DOMAIN Head(list) /\ Head(list)[name] # <<>>
          THEN <<Head(list)[name]>> ELSE <<>>)
         \o Pluck(Tail(list), name)

\* if (!obj[key]) obj[key] = []; obj[key].push(value) for each pair of a
\* list in turn: the keys in order of creation, each with its values
RECURSIVE GroupByKey(_)
GroupByKey(pairs) ==
    IF pairs = <<>> THEN <<>>
    ELSE LET pair == pairs[Len(pairs)]
             before == GroupByKey(SubSeq(pairs, 1, Len(pairs) - 1))
             at == {k \in DOMAIN before : before[k].key = pair.key}
         IN  IF at = {} THEN Append(before, [key |-> pair.key, values |-> <<pair.value>>])
             ELSE [k \in DOMAIN before |->
                      IF k \in at THEN [before[k] EXCEPT !.values = Append(@, pair.value)]
                      ELSE before[k]]

\* scores.reduce((a, b) => a + b, 0)
RECURSIVE Total(_)
Total(scores) ==
    IF scores = <<>> THEN Number(0, 1)
    ELSE Plus(Total(SubSeq(scores, 1, Len(scores) - 1)), scores[Len(scores)])

\* the scores added up, not divided by how many they are
SumOfScores(scores) == Total(scores)

\* scores.reduce((a, b) => a + b, 0) / scores.length
Mean(scores) == Div(Total(scores), Number(Len(scores), 1))

\* Math.round(x * 100) / 100
Round2(x) == Number((200 * x.num + x.den) \div (2 * x.den), 100)

\* Object.entries(counts).sort((a, b) => b[1] - a[1])
ByCount(counts) ==
    LET pairs == ObjectEntries(counts)
    IN  Sort(pairs, [i \in DOMAIN pairs |-> [j \in DOMAIN pairs |->
                        pairs[i].count > pairs[j].count]])

\* the ten most frequent topics of the entries
topTopics(recentEntries) ==
    LET topicCounts == CountKeys(FlatMap(recentEntries, "topics"))
        top == Slice(ByCount(topicCounts), 10)
    IN  [k \in DOMAIN top |-> [topic |-> top[k].key, count |-> top[k].count]]

moodDistribution(recentEntries) ==
    LET sorted == ByCount(CountKeys(Pluck(recentEntries, "mood")))
    IN  [k \in DOMAIN sorted |-> [mood |-> sorted[k].key, count |-> sorted[k].count]]

\* recentEntries.filter(e => e.sentimentScore !== undefined)
entriesWithSentiment(recentEntries) ==
    SelectSeq(recentEntries, LAMBDA e : "sentimentScore" \in DOMAIN e)

\* the daily averages of the scores, by date
sentimentTrend(recentEntries) ==
    LET scored == entriesWithSentiment(recentEntries)
        sentimentByDay ==
            GroupByKey([k \in DOMAIN scored |->
                           [key |-> Day(scored[k].timestamp),
                            value |-> scored[k].sentimentScore]])
        sorted == Sort(sentimentByDay,
                       [i \in DOMAIN sentimentByDay |-> [j \in DOMAIN sentimentByDay |->
                           sentimentByDay[i].key < sentimentByDay[j].key]])
    IN  [k \in DOMAIN sorted |->
            [date |-> sorted[k].key,
             avgSentiment |-> Mean(sorted[k].values),
             entries |-> Len(sorted[k].values)]]

\* the five hours of the day with the most entries, each with the mood
\* most often recorded in it
timePatterns(recentEntries) ==
    LET hourCounts ==
            CountKeys([k \in DOMAIN recentEntries |->
                          String(Hour(recentEntries[k].timestamp))])
        moody == SelectSeq(recentEntries,
                        LAMBDA e : "mood" \in DOMAIN e /\ e.mood # <<>>)
        moodByHour ==
            GroupByKey([k \in DOMAIN moody |->
                           [key |-> String(Hour(moody[k].timestamp)),
                            value |-> moody[k].mood]])
        top == Slice(ByCount(hourCounts), 5)
        moods(hour) ==
            LET at == {k \in DOMAIN moodByHour : moodByHour[k].key = hour}
            IN  IF at = {} THEN <<>> ELSE moodByHour[CHOOSE k \in at : TRUE].values
        pattern(hour, count) ==
            LET moodFreq == ByCount(CountKeys(moods(hour)))
                base == [hour |-> parseInt(hour).num,
                         timeLabel |-> hour \o <<":", "0", "0">>,
                         count |-> count]
            IN  IF moodFreq = <<>> THEN base
                ELSE base @@ [commonMood |-> moodFreq[1].key]
    IN  [k \in DOMAIN top |-> pattern(top[k].key, top[k].count)]

dayOfWeekPatterns(recentEntries) ==
    LET dayOfWeekCounts ==
            CountKeys([k \in DOMAIN recentEntries |->
                          String(DayOfWeek(recentEntries[k].timestamp))])
        sorted == ByCount(dayOfWeekCounts)
    IN  [k \in DOMAIN sorted |->
            [day |-> dayNames[parseInt(sorted[k].key).num + 1],
             count |-> sorted[k].count]]

\* entries.filter(e => new Date(e.timestamp) >= cutoff) when new Date()
\* reads clock
Cutoff(days, clock) == clock - days * HoursPerDay
Recent(store, days, clock) ==
    SelectSeq(store, LAMBDA e : e.timestamp >= Cutoff(days, clock))

\* the report on the entries of the window
PatternReport(recentEntries, days, clock) ==
    LET scored == entriesWithSentiment(recentEntries)
        avgSentiment ==
            IF Len(scored) > 0
            THEN Mean([k \in DOMAIN scored |-> scored[k].sentimentScore])
            ELSE Number(0, 1)
    IN  [period |-> [days |-> days, from |-> Day(Cutoff(days, clock)),
                     to |-> Day(clock)],
         totalEntries |-> Len(recentEntries),
         avgSentiment |-> Round2(avgSentiment),
         topTopics |-> topTopics(recentEntries),
         moodDistribution |-> moodDistribution(recentEntries),
         sentimentTrend |-> sentimentTrend(recentEntries),
         timePatterns |-> timePatterns(recentEntries),
         dayOfWeekPatterns |-> dayOfWeekPatterns(recentEntries)]

\* a report on the window whatever it holds: of an empty one, zero counts
zeroFilledPatterns(store, days, clock) ==
    PatternReport(Recent(store, days, clock), days, clock)

\* detectPatterns(entries, days)
detectPatterns(store, days, clock) ==
    IF Len(Recent(store, days, clock)) = 0
    THEN [error |-> "No entries in the specified time range"]
    ELSE PatternReport(Recent(store, days, clock), days, clock)

\* parseInt(req.query.days) || 30
Days(req) ==
    LET days == parseInt(Param(req, "days", <<>>))
    IN  IF IsNaN(days) \/ days.num = 0 THEN 30 ELSE days.num

\* req.query.ai === 'true'
WantsAI(req) == Param(req, "ai", <<>>) = <<"t", "r", "u", "e">>

\* the handler up to res.json, or to await generatePatternInsights, which
\* throws before any call when the analysis provider is not configured
Patterns(req) ==
    LET patterns == detectPatterns(Snapshot(entries, objs), Days(req), now)
        served == [route |-> "patterns", pc |-> "done", req |-> req]
    IN
    /\ query.pc = "done"
    /\ IF "error" \in DOMAIN patterns
       THEN /\ query' = served
            /\ reply' = [route |-> "patterns", status |-> 200, error |-> patterns.error]
       ELSE IF ~WantsAI(req)
       THEN /\ query' = served
            /\ reply' = [route |-> "patterns", status |-> 200, patterns |-> patterns]
       ELSE IF ~anthropicKey
       THEN /\ query' = served
            /\ reply' = [route |-> "patterns", status |-> 200, patterns |-> patterns,
                         aiError |-> "ANTHROPIC_API_KEY not set"]
       ELSE /\ query' = [served EXCEPT !.pc = "insights"] @@ [patterns |-> patterns]
            /\ reply' = NoReply
    /\ UNCHANGED <<plugins, openaiKey, anthropicKey, now, objs, entries, disk, runs, resp>>

\* what a narrative provider may answer with: the parsed object
Narratives == {"N1", "N2"}

\* what generatePatternInsights and the digest generators may throw: the
\* provider's error, no object in the answer, or JSON.parse's error
NarrativeErrors == {"provider error", "Invalid response", "Unexpected token"}

\* await generatePatternInsights(patterns) resolved
InsightsGenerated(insights) ==
    /\ query.route = "patterns"
    /\ query.pc = "insights"
    /\ query' = [query EXCEPT !.pc = "done"]
    /\ reply' = [route |-> "patterns", status |-> 200, patterns |-> query.patterns,
                 ai |-> insights]
    /\ UNCHANGED <<plugins, openaiKey, anthropicKey, now, objs, entries, disk, runs, resp>>

\* catch (aiErr) { return res.json({ patterns, ai: null, aiError }) }
InsightsFailed(message) ==
    /\ query.route = "patterns"
    /\ query.pc = "insights"
    /\ query' = [query EXCEPT !.pc = "done"]
    /\ reply' = [route |-> "patterns", status |-> 200, patterns |-> query.patterns,
                 aiError |-> message]
    /\ UNCHANGED <<plugins, openaiKey, anthropicKey, now, objs, entries, disk, runs, resp>>

-----------------------------------------------------------------------------
(* GET /api/lifelog/digest/:date and GET /api/lifelog/digest/week/:date    *)

\* [...new Set(list)]: the elements in order of first occurrence
RECURSIVE Unique(_)
Unique(list) ==
    IF list = <<>> THEN <<>>
    ELSE LET before == Unique(SubSeq(list, 1, Len(list) - 1))
             last == list[Len(list)]
         IN  IF \E k \in DOMAIN before : before[k] = last THEN before
             ELSE Append(before, last)

\* String(undefined), the property key that a missing context becomes
Undefined == <<"u", "n", "d", "e", "f", "i", "n", "e", "d">>

\* the aggregate fields of the daily digest for the entries of a date
basicDaily(store, date) ==
    LET dayEntries == SelectSeq(store, LAMBDA e : Day(e.timestamp) = date)
    IN  [date |-> date,
         totalEntries |-> Len(dayEntries),
         contexts |-> ObjectEntries(CountKeys(
                          [k \in DOMAIN dayEntries |->
                              Param(dayEntries[k], "context", Undefined)])),
         sentiments |-> ObjectEntries(CountKeys(Pluck(dayEntries, "sentiment"))),
         topics |-> Unique(FlatMap(dayEntries, "topics")),
         actionItems |-> FlatMap(dayEntries, "actionItems"),
         entries |-> dayEntries]

\* the Sunday that starts the week of a date, in days
StartOfWeek(date) == date - ((date + 4) % 7)

\* byDay[day].count, .moods and .topics of the days that have entries
byDay(weekEntries) ==
    LET groups == GroupByKey([k \in DOMAIN weekEntries |->
                                 [key |-> Day(weekEntries[k].timestamp),
                                  value |-> weekEntries[k]]])
    IN  [k \in DOMAIN groups |->
            [day |-> groups[k].key,
             count |-> Len(groups[k].values),
             moods |-> Pluck(groups[k].values, "mood"),
             topics |-> FlatMap(groups[k].values, "topics")]]

\* the aggregate fields of the weekly digest for the week of a date
basicWeekly(store, date) ==
    LET weekStart == StartOfWeek(date)
        weekEnd == weekStart + 6
        weekEntries == SelectSeq(store, LAMBDA e : /\ Day(e.timestamp) >= weekStart
                                                /\ Day(e.timestamp) <= weekEnd)
    IN  [weekStart |-> weekStart,
         weekEnd |-> weekEnd,
         totalEntries |-> Len(weekEntries),
         daysWithEntries |-> Len(byDay(weekEntries)),
         byDay |-> byDay(weekEntries),
         sentiments |-> ObjectEntries(CountKeys(Pluck(weekEntries, "sentiment"))),
         topics |-> Unique(FlatMap(weekEntries, "topics")),
         actionItems |-> FlatMap(weekEntries, "actionItems")]

\* dayEntries holds the entry objects themselves: res.json serializes them
\* as they are when the response is sent
Serialized(basicDigest, refs) ==
    IF "entries" \in DOMAIN basicDigest
    THEN [basicDigest EXCEPT !.entries = Snapshot(refs, objs)]
    ELSE basicDigest

\* either handler up to res.json(basicDigest), or to the await of its
\* narrative when that is asked for, configured and there are entries
Digest(route, date, basicDigest, refs, req) ==
    LET served == [route |-> route, pc |-> "done", req |-> req, date |-> date] IN
    /\ query.pc = "done"
    /\ IF WantsAI(req) /\ anthropicKey /\ basicDigest.totalEntries > 0
       THEN /\ query' = [served EXCEPT !.pc = "narrative"]
                        @@ [basicDigest |-> basicDigest, refs |-> refs]
            /\ reply' = NoReply
       ELSE /\ query' = served
            /\ reply' = [route |-> route, status |-> 200]
                        @@ Serialized(basicDigest, refs)
    /\ UNCHANGED <<plugins, openaiKey, anthropicKey, now, objs, entries, disk, runs, resp>>

DailyDigest(date, req) ==
    Digest("daily", date, basicDaily(Snapshot(entries, objs), date),
           SelectSeq(entries, LAMBDA ref : Day(objs[ref].timestamp) = date), req)

WeeklyDigest(date, req) ==
    Digest("weekly", date, basicWeekly(Snapshot(entries, objs), date), <<>>, req)

\* await generateDailyDigest / generateWeeklyDigest resolved:
\* basicDigest.ai = aiDigest; res.json(basicDigest)
DigestNarrated(aiDigest) ==
    /\ query.route \in {"daily", "weekly"}
    /\ query.pc = "narrative"
    /\ query' = [query EXCEPT !.pc = "done"]
    /\ reply' = [route |-> query.route, status |-> 200, ai |-> aiDigest]
                @@ Serialized(query.basicDigest, query.refs)
    /\ UNCHANGED <<plugins, openaiKey, anthropicKey, now, objs, entries, disk, runs, resp>>

\* a handler that gives the request up when the narrative fails:
\* catch (err) { res.status(500).json({ error: err.message }) }
DigestNarrativeAborted(message) ==
    /\ query.route \in {"daily", "weekly"}
    /\ query.pc = "narrative"
    /\ query' = [query EXCEPT !.pc = "done"]
    /\ reply' = [route |-> query.route, status |-> 500, error |-> message]
    /\ UNCHANGED <<plugins, openaiKey, anthropicKey, now, objs, entries, disk, runs, resp>>

\* catch (err) { basicDigest.aiError = err.message }; res.json(basicDigest)
DigestNarrativeFailed(message) ==
    /\ query.route \in {"daily", "weekly"}
    /\ query.pc = "narrative"
    /\ query' = [query EXCEPT !.pc = "done"]
    /\ reply' = [route |-> query.route, status |-> 200, aiError |-> message]
                @@ Serialized(query.basicDigest, query.refs)
    /\ UNCHANGED <<plugins, openaiKey, anthropicKey, now, objs, entries, disk, runs, resp>>

-----------------------------------------------------------------------------
(* The search and analytics routes over a store at rest: up to MaxStored   *)
(* entries, either embedded for the search or analyzed for the reports     *)

\* the hour the requests are served in: noon of the third day
ReadClock == 60

\* an entry as ingestion leaves it, with the properties given
Entry(id, timestamp, properties) ==
    [id |-> id, timestamp |-> timestamp, context |-> <<"w">>] @@ properties

\* the entries the k-th place of a store to search may hold: not embedded,
\* or embedded with one of four vectors, two of them at two times
SearchEntries(k) ==
    {Entry(k, 10, [transcript |-> <<"A", "b">>]),
     Entry(k, 10, [transcript |-> <<"a">>, embedding |-> <<1, 0>>]),
     Entry(k, 34, [transcript |-> <<"a">>, embedding |-> <<1, 0>>]),
     Entry(k, 10, [transcript |-> <<"b">>, embedding |-> <<3, 4>>]),
     Entry(k, 34, [transcript |-> <<"b">>, embedding |-> <<4, 3>>]),
     Entry(k, 10, [transcript |-> <<"b">>, embedding |-> <<-1, 0>>])}

\* the entries the k-th place of a store to report on may hold: without
\* analysis, or analyzed in part or in full, on one of three days
AnalyzedEntries(k) ==
    {Entry(k, 58, [transcript |-> <<"a">>]),
     Entry(k, 58, [summary |-> <<"a", "b">>, sentiment |-> <<"p">>,
                    sentimentScore |-> Number(6, 10), topics |-> << <<"w">>, <<"b">> >>,
                    actionItems |-> << <<"x">> >>, mood |-> <<"o", "k">>]),
     Entry(k, 50, [summary |-> <<"b">>, sentiment |-> <<"p">>,
                    sentimentScore |-> Number(1, 1), topics |-> << <<"b">>, <<"7">> >>,
                    actionItems |-> <<>>, mood |-> <<"u", "p">>]),
     Entry(k, 34, [summary |-> <<"b">>, sentiment |-> <<"n">>,
                    sentimentScore |-> Number(6, 10), topics |-> << <<"7">>, <<"w">> >>,
                    actionItems |-> << <<"y">> >>, mood |-> <<"o", "k">>]),
     Entry(k, 10, [summary |-> <<"a">>, topics |-> << <<"w">> >>,
                    mood |-> <<"u", "p">>]),
     Entry(k, 34, [sentimentScore |-> Number(1, 1)])}

\* the stores of up to MaxStored entries, the k-th entry from at[k]
Stores(at) ==
    UNION {{s \in [1..n -> UNION {at[k] : k \in 1..n}] :
               \A k \in 1..n : s[k] \in at[k]} : n \in 0..MaxStored}

\* req.query of the semantic search, and what the embedding provider may
\* return for the query
Limits == {<<"1">>, <<"2">>, <<"-", "1">>}
Thresholds == {<<"0">>, <<"-", "1">>, <<"0", ".", "9">>, <<"x">>}
SemanticRequests ==
    {[limit |-> <<"1">>]}
    \cup {[q |-> <<"a">>]}
    \cup {[q |-> <<"a">>, limit |-> l] : l \in Limits}
    \cup {[q |-> <<"a">>, threshold |-> t] : t \in Thresholds}
    \cup {[q |-> <<"a">>, limit |-> l, threshold |-> t] : l \in Limits, t \in Thresholds}
QueryEmbeddings == {<<1, 0>>, <<3, 4>>}

\* req.query of the keyword search, of the pattern report and of a digest
KeywordRequests ==
    {[q |-> <<"a">>], [q |-> <<"B">>, context |-> <<"w">>], [from |-> 34], [to |-> 34]}
PatternRequests ==
    {[days |-> d] : d \in {<<"1">>, <<"2">>, <<"0">>}}
    \cup {[ai |-> <<"t", "r", "u", "e">>],
          [days |-> <<"1">>, ai |-> <<"t", "r", "u", "e">>]}
DigestRequests == {[ai |-> <<"f">>], [ai |-> <<"t", "r", "u", "e">>]}
Dates == 0..2

ReadInit ==
    /\ openaiKey \in BOOLEAN
    /\ anthropicKey = openaiKey
    /\ now = ReadClock
    /\ objs \in Stores([k \in 1..MaxStored |-> SearchEntries(k)])
                \cup Stores([k \in 1..MaxStored |-> AnalyzedEntries(k)])
    /\ entries = [k \in DOMAIN objs |-> k]
    /\ disk = objs
    /\ runs = EmptyBag
    /\ resp = 0
    /\ registry = <<>>
    /\ dispatch = NoDispatch
    /\ loader = NoLoad
    /\ query = NoQuery
    /\ reply = NoReply
    /\ NoRecords

\* the store being at rest, a behaviour serves one request
Unserved == query = NoQuery

ReadNext ==
    \/ \E req \in SemanticRequests : Unserved /\ SemanticSearchRequest(req)
    \/ \E queryEmbedding \in QueryEmbeddings : SemanticSearchRanked(queryEmbedding)
    \/ SemanticSearchError
    \/ \E req \in KeywordRequests : Unserved /\ KeywordSearch(req)
    \/ \E req \in PatternRequests : Unserved /\ Patterns(req)
    \/ \E insights \in Narratives : InsightsGenerated(insights)
    \/ \E message \in NarrativeErrors : InsightsFailed(message)
    \/ \E date \in Dates, req \in DigestRequests : Unserved /\ DailyDigest(date, req)
    \/ \E date \in Dates, req \in DigestRequests : Unserved /\ WeeklyDigest(date, req)
    \/ \E aiDigest \in Narratives : DigestNarrated(aiDigest)
    \/ \E message \in NarrativeErrors : DigestNarrativeFailed(message)

ReadSpec == ReadInit /\ [][ReadNext]_vars

-----------------------------------------------------------------------------
(* Vocabulary of the properties *)

\* the automatic runs in flight for the entry object i, and how many
AutoRunsOf(i) == {r \in Running : r.kind = "auto" /\ r.ref = i}
AutoCount(i) == BagCardinality([r \in AutoRunsOf(i) |-> CopiesIn(r, runs)])

\* provider calls outstanding for the entry object i: of its automatic run,
\* and of any run
AutoCalls(i) == UNION {r.calls : r \in AutoRunsOf(i)}
CallsFor(i) == UNION {r.calls : r \in {q \in Running : q.ref = i}}

\* the persisted snapshot holds the entry object i as it is in memory
Persisted(i) == \A k \in 1..Len(entries) : entries[k] = i => disk[k] = objs[i]

\* the fields the three stages populate
StageFields(e) ==
    <<e.transcript, e.transcribedAt, e.summary, e.sentiment, e.sentimentScore,
      e.topics, e.actionItems, e.mood, e.analyzedAt, e.embedding, e.embeddedAt>>

\* the transcript followed by the summary, the transcript alone without one
TranscriptThenSummary(e) ==
    IF IsNull(e.summary) THEN e.transcript ELSE Template(e.transcript, e.summary)

\* generateEmbedding needs OPENAI_API_KEY, as transcribeAudio does
EmbeddingConfigured == openaiKey

\* the last stage of the chain transcribe, analyze, embed that is configured
FinalConfiguredStage ==
    IF EmbeddingConfigured THEN "embed"
    ELSE IF anthropicKey THEN "analyze" ELSE "transcribe"

-----------------------------------------------------------------------------
(* C1..C10: the enrichment pipeline *)

\* C1: in every reachable state, every entry of the store whose summary is
\* non-null also has a non-null sentiment and a non-null mood.
C1_AnalysisAtomic ==
    \A k \in 1..Len(entries) :
        LET e == objs[entries[k]] IN
        ~IsNull(e.summary) => ~IsNull(e.sentiment) /\ ~IsNull(e.mood)

\* C2: an automatic run appears only in the step that creates its entry, one
\* run at most, so an entry never has two automatic runs in flight and no
\* request other than the ingestion of that entry starts one.
C2_OneAutoRun ==
    [][\A i \in DOMAIN objs' :
          /\ AutoCount(i)' <= 1
          /\ AutoCount(i)' > AutoCount(i) => i \notin DOMAIN objs]_vars

\* an automatic run and a manual run are in flight for the same entry
C2_Witness ==
    \E i \in DOMAIN objs :
        /\ AutoCount(i) = 1
        /\ \E r \in Running : r.kind # "auto" /\ r.ref = i

\* a manual request that writes a transcript
ManualTranscriptWrite ==
    \/ \E id \in Ids, k \in DOMAIN PatchBodies : Update(id, PatchBodies[k])
    \/ \E r \in Running : \E c \in r.calls, t \in Texts : MTranscribed(r, c, t)

\* C3: the ingestion of an entry issues a transcription call for it exactly
\* when the request carried audio and the transcription provider is
\* configured; an entry ingested without audio never has an automatic call
\* outstanding, and its transcript changes only in a manual request's step.
C3_AutoTranscribeIffAudio ==
    [][/\ \A i \in DOMAIN objs' \ DOMAIN objs :
             (\E c \in AutoCalls(i)' : c.provider = "transcribe")
                 <=> (objs'[i].audioPath # Null /\ openaiKey)
       /\ \A i \in DOMAIN objs :
             objs[i].audioPath = Null =>
                 /\ AutoCalls(i)' = {}
                 /\ objs'[i].transcript # objs[i].transcript => ManualTranscriptWrite]_vars

\* an entry ingested without audio while transcription is configured, whose
\* transcript a manual request has since changed
C3_Witness ==
    \E i \in DOMAIN objs :
        /\ openaiKey
        /\ objs[i].audioPath = Null
        /\ objs[i].updatedAt
        /\ IsNull(objs[i].transcript)

\* C4: an automatic run has at most one provider call outstanding; its
\* analysis call is issued in the step in which its transcription call
\* returned and the transcript was written to the entry and persisted; its
\* embedding call is issued in the step in which its analysis call returned
\* (its transcription call, when analysis is not configured).
C4_StagesSequential ==
    [][\A i \in DOMAIN objs' :
          /\ \A r \in AutoRunsOf(i)' : Cardinality(r.calls) <= 1
          /\ \A c \in AutoCalls(i)' \ AutoCalls(i) :
                /\ c.provider = "analyze" =>
                      /\ \E p \in AutoCalls(i) \ AutoCalls(i)' : p.provider = "transcribe"
                      /\ objs'[i].transcript = c.arg
                      /\ objs'[i].transcribedAt
                      /\ Persisted(i)'
                /\ c.provider = "embed" =>
                      \E p \in AutoCalls(i) \ AutoCalls(i)' :
                          p.provider = IF anthropicKey THEN "analyze" ELSE "transcribe"]_vars

\* an automatic run waits for its embedding after transcription and analysis
C4_Witness ==
    \E r \in Running :
        /\ r.kind = "auto" /\ r.pc = "embed"
        /\ objs[r.ref].transcribedAt /\ objs[r.ref].analyzedAt
        /\ r.calls = {Call("embed", TranscriptThenSummary(objs[r.ref]))}

\* C5: no analysis or embedding call is issued for an entry whose transcript
\* is null; manual analyze and manual embed of such an entry answer with an
\* error and change nothing; an entry whose transcript is null has neither a
\* summary nor an embedding.
C5_TranscriptPrecondition ==
    [][/\ \A i \in DOMAIN objs' :
             /\ \A c \in CallsFor(i)' \ CallsFor(i) :
                   c.provider \in {"analyze", "embed"} => ~IsNull(objs'[i].transcript)
             /\ IsNull(objs'[i].transcript) =>
                   IsNull(objs'[i].summary) /\ IsNull(objs'[i].embedding)
       /\ \A id \in Ids :
             (FindEntry(id) # 0 /\ IsNull(objs[FindEntry(id)].transcript)
                 /\ (ManualAnalyze(id) \/ ManualEmbed(id)))
             => (resp' = 400 /\ objs' = objs /\ runs' = runs /\ disk' = disk)]_vars

\* C6: processed never goes back to false, and once it is true no step of
\* the entry's automatic run changes a field of the entry.
C6_ProcessedMonotonic ==
    [][\A i \in DOMAIN objs :
          objs[i].processed =>
              /\ objs'[i].processed
              /\ AutoRunsOf(i)' # AutoRunsOf(i) => objs'[i] = objs[i]]_vars

\* C7: the step in which the analysis of an automatic run succeeds sets
\* processed only if the embedding provider is not configured; when it is
\* configured the run goes on to the embedding with processed as it was.
C7_ProcessedOnlyWithoutEmbedding ==
    [][\A r \in Running : \A c \in r.calls, m \in Shapes :
          (AutoAnalyzed(r, c, m) /\ ~SummaryLogThrows(AnalysisOf(c.arg, m))) =>
              IF EmbeddingConfigured
              THEN /\ objs'[r.ref].processed = objs[r.ref].processed
                   /\ \E n \in AutoCalls(r.ref)' : n.provider = "embed"
              ELSE objs'[r.ref].processed]_vars

\* an embedding call of a run for the entry object i returned a vector
EmbedSucceeded(i) ==
    \E r \in Running : \E c \in r.calls :
        /\ r.ref = i
        /\ AutoEmbedded(r, c) \/ AutoEmbeddedOnly(r, c) \/ MEmbedded(r, c) \/ EAEmbedded(r, c)

\* C8: every embedding call carries the entry's transcript followed by its
\* summary (the transcript alone without a summary), and every successful
\* embedding step leaves the entry with embedding and embeddedAt set and
\* processed = true.
C8_EmbeddingStep ==
    [][\A i \in DOMAIN objs :
          /\ \A c \in CallsFor(i)' \ CallsFor(i) :
                c.provider = "embed" => c.arg = TranscriptThenSummary(objs'[i])
          /\ EmbedSucceeded(i) =>
                /\ ~IsNull(objs'[i].embedding)
                /\ objs'[i].embeddedAt
                /\ objs'[i].processed]_vars

\* C9 as stated: a failure of a stage of the automatic run that is not the
\* final configured stage leaves processed unchanged.
C9_OnlyFinalStageSetsProcessed ==
    [][\A r \in Running : \A c \in r.calls :
          LET same == objs'[r.ref].processed = objs[r.ref].processed IN
          /\ (AutoTranscribeFailed(r, c) /\ FinalConfiguredStage # "transcribe") => same
          /\ (AutoAnalyzeFailed(r, c) /\ FinalConfiguredStage # "analyze") => same
          /\ ((AutoEmbedFailed(r, c) \/ AutoEmbedOnlyFailed(r, c))
                 /\ FinalConfiguredStage # "embed") => same]_vars

\* C9 amended: in an automatic run a transcription failure leaves processed
\* unchanged, an analysis failure sets it to true (and ends the run, with
\* embedding configured or not), an embedding failure sets it to true when
\* analysis is not configured and leaves it unchanged after an analysis.
C9_FailureProcessed ==
    [][\A r \in Running : \A c \in r.calls :
          LET same == objs'[r.ref].processed = objs[r.ref].processed IN
          /\ AutoTranscribeFailed(r, c) => same /\ AutoRunsOf(r.ref)' = {}
          /\ AutoAnalyzeFailed(r, c) => objs'[r.ref].processed /\ AutoRunsOf(r.ref)' = {}
          /\ AutoEmbedFailed(r, c) => same
          /\ AutoEmbedOnlyFailed(r, c) => objs'[r.ref].processed]_vars

\* the analysis of an automatic run has failed with embedding configured:
\* the entry is transcribed, not analyzed, not embedded, and processed
C9_Witness ==
    \E i \in DOMAIN objs :
        /\ EmbeddingConfigured /\ anthropicKey
        /\ runs = EmptyBag
        /\ resp = 200
        /\ objs[i].transcribedAt /\ ~objs[i].analyzedAt /\ ~objs[i].embeddedAt
        /\ objs[i].processed

\* a provider call of an automatic run, of a manual request or of embed-all
\* was rejected
ProviderFailed ==
    \E r \in Running : \E c \in r.calls :
        \/ AutoTranscribeFailed(r, c) \/ AutoAnalyzeFailed(r, c)
        \/ AutoEmbedFailed(r, c) \/ AutoEmbedOnlyFailed(r, c)
        \/ MTranscribeFailed(r, c) \/ MTAnalyzeFailed(r, c)
        \/ MAnalyzeFailed(r, c) \/ MEmbedFailed(r, c) \/ EAEmbedFailed(r, c)

\* C10: the step that handles a provider failure leaves the transcript, the
\* analysis fields, the embedding and their time stamps of every entry as
\* they were.
C10_FailureKeepsFields ==
    [][ProviderFailed =>
          \A i \in DOMAIN objs : StageFields(objs'[i]) = StageFields(objs[i])]_vars

\* a manual request has just failed at its provider on an entry that keeps
\* the transcript and analysis of earlier stages
C10_Witness ==
    \E i \in DOMAIN objs :
        /\ openaiKey /\ anthropicKey
        /\ resp = 500
        /\ objs[i].transcribedAt /\ objs[i].analyzedAt /\ ~objs[i].embeddedAt
        /\ ~IsNull(objs[i].transcript) /\ ~IsNull(objs[i].summary)

-----------------------------------------------------------------------------
(* C11..C20: failures, the store, and hook dispatch *)

\* the fields the analysis stage populates
AnalysisFields(e) ==
    <<e.summary, e.sentiment, e.sentimentScore, e.topics, e.actionItems,
      e.mood, e.analyzedAt>>

\* the automatic run logs `Analysis failed` for the entry object i, or a
\* manual analyze request for it answers with an error after its provider
\* call settled
AnalysisAttemptFailed(i) ==
    \E r \in Running : \E c \in r.calls :
        /\ r.ref = i
        /\ \/ AutoAnalyzeFailed(r, c)
           \/ MAnalyzeFailed(r, c)
           \/ \E m \in Shapes :
                 /\ SummaryLogThrows(AnalysisOf(c.arg, m))
                 /\ AutoAnalyzed(r, c, m) \/ MAnalyzed(r, c, m)

\* C11: a step in which the automatic run logs an analysis failure or the
\* manual analyze request answers with an error, for a rejected call or for
\* an answer without a summary alike, leaves summary, sentiment,
\* sentimentScore, topics, actionItems, mood and analyzedAt of the entry as
\* they were.
C11_MalformedAsProviderError ==
    [][\A i \in DOMAIN objs :
          AnalysisAttemptFailed(i) =>
              AnalysisFields(objs'[i]) = AnalysisFields(objs[i])]_vars

\* C12: the step in which the automatic run of an entry ends, after a
\* success or after a failure of any stage, leaves the entry with
\* processed = true.
C12_RunEndsProcessed ==
    [][\A i \in DOMAIN objs :
          (AutoRunsOf(i) # {} /\ AutoRunsOf(i)' = {}) => objs'[i].processed]_vars

\* the last step of a manual transcribe or manual analyze request for the
\* run r, whose analysis call c resolved with a complete result
OverrideCompleted(r, c) ==
    MTAnalyzed(r, c, {}) \/ MAnalyzed(r, c, {})

\* C13: with both providers configured, the step that completes a manual
\* transcribe or a manual analyze request leaves the entry with the new
\* analysis of the transcript it analyzed and with the embedding of that
\* transcript followed by the new summary.
C13_OverrideRunsChain ==
    [][\A r \in Running : \A c \in r.calls :
          (OverrideCompleted(r, c) /\ openaiKey /\ anthropicKey) =>
              LET e == objs'[r.ref] IN
              /\ e.summary = AnalysisOf(c.arg, {}).summary
              /\ e.analyzedAt
              /\ e.embedding = EmbeddingOf(Template(c.arg, e.summary))
              /\ e.embeddedAt]_vars

\* the entry objects the store holds
Stored == {entries[k] : k \in 1..Len(entries)}

C15_IdsUniqueIncreasingImmutable ==
    [][/\ \A k, l \in 1..Len(entries') :
             k # l => objs'[entries'[k]].id # objs'[entries'[l]].id
       /\ \A i \in DOMAIN objs' \ DOMAIN objs :
             \A j \in DOMAIN objs : objs'[i].id > objs[j].id
       /\ \A i \in DOMAIN objs : objs'[i].id = objs[i].id]_vars

\* a request that names the entry id: manual transcribe, analyze, embed,
\* update or delete
AddressedTo(id) ==
    \/ ManualTranscribe(id) \/ ManualAnalyze(id) \/ ManualEmbed(id)
    \/ \E k \in DOMAIN PatchBodies : Update(id, PatchBodies[k])
    \/ Delete(id)

\* C16: a manual transcribe, analyze, embed, update or delete that names an
\* id no entry of the store has answers 404, starts no provider call and
\* leaves the entry objects, the store and the persisted snapshot unchanged.
C16_UnknownIdNoEffect ==
    [][\A id \in Ids :
          (FindEntry(id) = 0 /\ AddressedTo(id)) =>
              /\ resp' = 404
              /\ runs' = runs
              /\ objs' = objs /\ entries' = entries /\ disk' = disk]_vars

\* a request named an unknown id while the store held an entry with a run
\* in flight
C16_Witness ==
    /\ resp = 404
    /\ Len(entries) = 1
    /\ runs # EmptyBag

\* a request step that starts no provider call and changes no entry
NoCallNoChange ==
    runs' = runs /\ objs' = objs /\ entries' = entries

\* every provider call the automatic runs issue in this step goes to a
\* configured provider
AutoCallsConfigured ==
    \A i \in DOMAIN objs' : \A c \in AutoCalls(i)' \ AutoCalls(i) :
        IF c.provider = "analyze" THEN anthropicKey ELSE openaiKey

\* C17 as stated: a manual transcribe, analyze, embed, embed-all or
\* semantic-search request whose provider is not configured answers with
\* the configuration error (500), starts no call and changes no entry; the
\* automatic run calls configured providers only.
C17_UnconfiguredIsConfigError ==
    [][/\ \A id \in Ids :
             /\ (~openaiKey /\ (ManualTranscribe(id) \/ ManualEmbed(id)))
                   => (resp' = 500 /\ NoCallNoChange)
             /\ (~anthropicKey /\ ManualAnalyze(id))
                   => (resp' = 500 /\ NoCallNoChange)
       /\ (~openaiKey /\ (EmbedAll \/ \E q \in Queries : SemanticSearch(q)))
             => (resp' = 500 /\ NoCallNoChange)
       /\ AutoCallsConfigured]_vars

\* the status a handler answers with when its provider is not configured:
\* the id and the input are tested before the key
StatusUnconfigured(found, hasInput) ==
    IF ~found THEN 404 ELSE IF ~hasInput THEN 400 ELSE 500

\* C17 amended: such a request starts no call and changes no entry, and it
\* answers with the configuration error unless its id is unknown (404) or
\* its input is missing (400: no audio file, no transcript, no query),
\* which the handlers test first; the automatic run calls configured
\* providers only.
C17_UnconfiguredNoCall ==
    [][/\ \A id \in Ids :
             LET ref == FindEntry(id) IN
             /\ (~openaiKey /\ ManualTranscribe(id)) =>
                   /\ NoCallNoChange
                   /\ resp' = StatusUnconfigured(ref # 0, ref # 0 /\ Truthy(objs[ref].audioPath))
             /\ (~openaiKey /\ ManualEmbed(id)) =>
                   /\ NoCallNoChange
                   /\ resp' = StatusUnconfigured(ref # 0, ref # 0 /\ Truthy(objs[ref].transcript))
             /\ (~anthropicKey /\ ManualAnalyze(id)) =>
                   /\ NoCallNoChange
                   /\ resp' = StatusUnconfigured(ref # 0, ref # 0 /\ Truthy(objs[ref].transcript))
       /\ (~openaiKey /\ EmbedAll) => (NoCallNoChange /\ resp' = 500)
       /\ \A q \in Queries :
             (~openaiKey /\ SemanticSearch(q)) =>
                 (NoCallNoChange /\ resp' = StatusUnconfigured(TRUE, Truthy(q)))
       /\ AutoCallsConfigured]_vars

\* without the transcription and embedding key a request was answered with
\* the configuration error while the store held an entry with a transcript
C17_Witness ==
    /\ ~openaiKey
    /\ resp = 500
    /\ runs = EmptyBag
    /\ \E k \in 1..Len(entries) : Truthy(objs[entries[k]].transcript)

\* a step of the automatic run or of a manual transcribe or analyze request
\* r, taken when its call c settles
RunStep(r, c) ==
    \/ AutoTranscribed(r, c, "a") \/ AutoTranscribeFailed(r, c)
    \/ AutoAnalyzed(r, c, {}) \/ AutoAnalyzeFailed(r, c)
    \/ AutoEmbedded(r, c) \/ AutoEmbedFailed(r, c)
    \/ MTranscribed(r, c, "a") \/ MTranscribeFailed(r, c)
    \/ MTAnalyzed(r, c, {}) \/ MTAnalyzeFailed(r, c)
    \/ MAnalyzed(r, c, {}) \/ MAnalyzeFailed(r, c)

\* C18: a step of a run for one entry leaves every field of every other
\* entry as it was, whatever other runs are in flight.
C18_OtherEntriesUntouched ==
    [][\A r \in Running : \A c \in r.calls :
          RunStep(r, c) =>
              \A j \in DOMAIN objs : j # r.ref => objs'[j] = objs[j]]_vars

\* runs for two different entries are in flight, one of them past its
\* transcription, in a store whose two entries share an id
C18_Witness ==
    \E r1, r2 \in Running :
        /\ r1.ref # r2.ref
        /\ objs[r1.ref].id = objs[r2.ref].id
        /\ objs[r1.ref].transcribedAt
        /\ ~objs[r2.ref].transcribedAt

\* the names of the plugins that implement the hook, in registration order
Implementers ==
    LET impl == SelectSeq(registry, LAMBDA p : p.hook)
    IN  [k \in 1..Len(impl) |-> impl[k].name]

\* the records of the hooks that returned something, in invocation order
Returned(outcomes) ==
    LET kept == SelectSeq(outcomes, LAMBDA o : ~o.threw /\ o.value # Undef)
    IN  [k \in 1..Len(kept) |-> [plugin |-> kept[k].plugin, result |-> kept[k].value]]

\* C19: the hooks are invoked one at a time in registration order; whatever
\* a hook throws or rejects with, the dispatch does not fail, the hooks
\* after it are still invoked, and the results of the others are returned
\* in registration order.
C19_DispatchIsolated ==
    /\ dispatch.pc # "rejected"
    /\ dispatch.invoked = SubSeq(Implementers, 1, Len(dispatch.invoked))
    /\ Len(dispatch.outcomes) \in {Len(dispatch.invoked), Len(dispatch.invoked) - 1}
    /\ dispatch.pc = "returned" =>
          /\ dispatch.invoked = Implementers
          /\ dispatch.results = Returned(dispatch.outcomes)

\* the records of the hooks that did not fail and returned a non-null
\* result, in invocation order
NonNullReturned(outcomes) ==
    LET kept == SelectSeq(outcomes, LAMBDA o : ~o.threw /\ ~IsNull(o.value))
    IN  [k \in 1..Len(kept) |-> [plugin |-> kept[k].plugin, result |-> kept[k].value]]

\* C20: the list a dispatch returns holds one record for each hook that did
\* not fail and returned a non-null result, and no record for a hook that
\* returned null.
C20_CollectsNonNull ==
    dispatch.pc = "returned" =>
        dispatch.results = NonNullReturned(dispatch.outcomes)

-----------------------------------------------------------------------------
(* C21..C30: plugin loading, semantic search, pattern and digest analytics *)

\* the elements of a sequence
Range(seq) == {seq[k] : k \in DOMAIN seq}

\* every registered plugin declares a name, a label and a version, and its
\* routes are absent or callable
RegistryValid ==
    \A j \in DOMAIN registry :
        /\ Truthy(registry[j].name)
        /\ Truthy(registry[j].label)
        /\ Truthy(registry[j].version)
        /\ IsNull(registry[j].routes) \/ Callable(registry[j].routes)

\* the plugin objects the directory holds
PluginItems == {k \in DOMAIN loader.items : loader.items[k].kind = "plugin"}

\* the k-th item exports a plugin that fails validation
FailsValidation(k) ==
    LET p == loader.items[k] IN
    \/ \E field \in {"name", "label", "version"} : ~Truthy(p[field])
    \/ ~(IsNull(p.routes) \/ Callable(p.routes))

\* a plugin that fails validation or whose init failed is not registered
RejectedNotRegistered ==
    \A k \in PluginItems :
        FailsValidation(k) \/ k \in Range(loader.initFailed)
            => Exports(loader.items[k]) \notin Range(registry)

\* once loadPlugins has settled, every plugin that passes validation and
\* whose init did not fail is registered, whatever was rejected before it
LoadingContinues ==
    loader.pc \in {"returned", "rejected"} =>
        \A k \in PluginItems :
            ~FailsValidation(k) /\ k \notin Range(loader.initFailed)
                => Exports(loader.items[k]) \in Range(registry)

\* C21: registration is validated at load time: every plugin in the
\* registry declares a name, a label and a version and has routes that are
\* absent or callable; a plugin that fails validation or whose init fails
\* is not registered, and its rejection does not stop the loading of the
\* plugins after it.
C21_LoadValidated ==
    /\ RegistryValid
    /\ RejectedNotRegistered
    /\ LoadingContinues

\* a semantic search has been answered with a list of records
Answered == reply.route = "semantic" /\ "results" \in DOMAIN reply

\* the ids of the records returned
ReturnedIds == {reply.results[k].id : k \in DOMAIN reply.results}

\* C22: entries whose embedding is null never appear in semantic search
\* results, for every query and every threshold, a threshold of zero or
\* below included: they are excluded, not scored as zero.
C22_UnembeddedExcluded ==
    Answered =>
        \A i \in DOMAIN objs :
            "embedding" \notin DOMAIN objs[i] => objs[i].id \notin ReturnedIds

\* a search with a threshold below zero over a store with an entry that has
\* no embedding returned every embedded entry, and not that one
C22_Witness ==
    /\ Answered
    /\ Threshold(query.req) = <<"-", "1">>
    /\ Limit(query.req) = <<"1", "0">>
    /\ \E i \in DOMAIN objs : "embedding" \notin DOMAIN objs[i]
    /\ ReturnedIds = {objs[i].id : i \in {j \in DOMAIN objs : "embedding" \in DOMAIN objs[j]}}
    /\ ReturnedIds # {}

\* a semantic search has been answered after the query was embedded
Embedded == Answered /\ "embedding" \in DOMAIN query

\* the thresholds a request may carry that are numbers, the default among them
NumericThresholds ==
    {t \in Thresholds \cup {<<"0", ".", "3">>} : ~IsNaN(parseFloat(t))}

\* how many records the same query, over the same store and with the same
\* limit, gets with the threshold t
CountAt(t) ==
    Len(Ranked(Snapshot(entries, objs), query.embedding, t, Limit(query.req)))

\* C23: semantic search is monotone in the threshold: for a fixed query,
\* store and limit, a threshold at or above that of the request never
\* returns more records than the request got, and one at or below it never
\* fewer.
C23_ThresholdMonotone ==
    Embedded /\ Threshold(query.req) \in NumericThresholds =>
        \A t \in NumericThresholds :
            /\ Geq(parseFloat(t), parseFloat(Threshold(query.req)))
                   => CountAt(t) <= Len(reply.results)
            /\ Geq(parseFloat(Threshold(query.req)), parseFloat(t))
                   => CountAt(t) >= Len(reply.results)

\* a search at threshold 0 returned two records of which the threshold 0.9
\* would have kept one
C23_Witness ==
    /\ Embedded
    /\ Threshold(query.req) = <<"0">>
    /\ Len(reply.results) = 2
    /\ CountAt(<<"0", ".", "9">>) = 1

\* the embedded entries of the store and the similarity of each to the
\* query embedding of the request
EmbeddedRefs == {i \in DOMAIN objs : "embedding" \in DOMAIN objs[i]}
SimilarityOf(i) == cosineSimilarity(query.embedding, objs[i].embedding)

\* the embedded entries at or above the threshold of the request
Matches == {i \in EmbeddedRefs : Geq(SimilarityOf(i), parseFloat(Threshold(query.req)))}

\* the limit of the request when it is a count
LimitCount == parseInt(Limit(query.req))
LimitIsCount == ~IsNaN(LimitCount) /\ LimitCount.num >= 0

\* C24: semantic search returns the best matches whatever the order of
\* insertion: every returned record is an embedded entry with its
\* similarity, at or above the threshold; the records are in descending
\* order of similarity; there are at most limit of them (for a limit that
\* is a count); the threshold is applied before the truncation, so that
\* they are as many as the limit and the matches allow; and no embedded
\* entry left out is at or above the threshold with a similarity strictly
\* greater than that of a returned record.
C24_BestMatches ==
    Embedded =>
        LET results == reply.results IN
        /\ \A k \in DOMAIN results :
              \E i \in Matches : /\ objs[i].id = results[k].id
                                 /\ Same(results[k].similarity, SimilarityOf(i))
        /\ \A k, l \in DOMAIN results : k < l => results[k].id # results[l].id
        /\ \A k, l \in DOMAIN results :
              k < l => Geq(results[k].similarity, results[l].similarity)
        /\ LimitIsCount =>
              /\ Len(results) <= LimitCount.num
              /\ Len(results) = IF Cardinality(Matches) < LimitCount.num
                                THEN Cardinality(Matches) ELSE LimitCount.num
        /\ \A i \in Matches :
              objs[i].id \notin ReturnedIds =>
                  \A k \in DOMAIN results : ~Less(results[k].similarity, SimilarityOf(i))

\* three embedded entries inserted in ascending order of similarity to the
\* query, of which only the last is at or above 0.9: it alone is returned
C24_Witness ==
    /\ Embedded
    /\ Threshold(query.req) = <<"0", ".", "9">>
    /\ Len(objs) = 3
    /\ EmbeddedRefs = {1, 2, 3}
    /\ Less(SimilarityOf(1), SimilarityOf(2))
    /\ Less(SimilarityOf(2), SimilarityOf(3))
    /\ Matches = {3}
    /\ ReturnedIds = {objs[3].id}

\* C25: in semantic search results, entries with equal similarity are
\* ordered by most-recent timestamp first, whatever their order of
\* insertion into the store.
C25_TiesMostRecentFirst ==
    Embedded =>
        \A k, l \in DOMAIN reply.results :
            k < l /\ Same(reply.results[k].similarity, reply.results[l].similarity)
                => reply.results[k].timestamp >= reply.results[l].timestamp

\* C26: search and analytics are read-only: a step of semantic search,
\* keyword search, pattern detection or a daily or weekly digest leaves every
\* entry of the store and the persisted snapshot unchanged; the records that
\* semantic search returns carry a similarity and no embedding, while the
\* stored entries keep their embedding and have no similarity field.
ReadRoutes == {"semantic", "search", "patterns", "daily", "weekly"}

StoreUntouched ==
    /\ objs' = objs
    /\ entries' = entries
    /\ disk' = disk

RecordsScoredNotEmbedded ==
    (reply'.route = "semantic" /\ "results" \in DOMAIN reply') =>
        \A k \in DOMAIN reply'.results :
            /\ "similarity" \in DOMAIN reply'.results[k]
            /\ "embedding" \notin DOMAIN reply'.results[k]

StoredKeepEmbedding ==
    \A i \in DOMAIN objs :
        /\ "similarity" \notin DOMAIN objs'[i]
        /\ "embedding" \in DOMAIN objs[i] =>
              /\ "embedding" \in DOMAIN objs'[i]
              /\ objs'[i].embedding = objs[i].embedding

C26_ReadOnly ==
    [][query'.route \in ReadRoutes =>
          StoreUntouched /\ RecordsScoredNotEmbedded /\ StoredKeepEmbedding]_vars

\* a semantic search that returned records, over a store with embeddings
C26_Witness ==
    /\ reply.route = "semantic"
    /\ "results" \in DOMAIN reply
    /\ reply.results # <<>>
    /\ \E k \in DOMAIN entries : "embedding" \in DOMAIN objs[entries[k]]
    /\ disk = Snapshot(entries, objs)

\* the pattern request that was answered, and the places of the stored
\* entries that lie in its window
PatternsAnswered == reply.route = "patterns"
Window ==
    {k \in DOMAIN entries :
        objs[entries[k]].timestamp >= now - Days(query.req) * HoursPerDay}
ReportFields ==
    {"period", "totalEntries", "avgSentiment", "topTopics", "moodDistribution",
     "sentimentTrend", "timePatterns", "dayOfWeekPatterns"}

\* C27: pattern detection over a window that contains no entries answers
\* with the 'no entries in range' indicator and no statistics at all, while
\* a window with at least one entry, analyzed or not, answers with a full
\* report whose totalEntries is the number of entries in the window.
C27_EmptyWindowExplicit ==
    PatternsAnswered =>
        IF Window = {}
        THEN /\ "error" \in DOMAIN reply
             /\ reply.error = "No entries in the specified time range"
             /\ DOMAIN reply \cap ({"patterns"} \cup ReportFields) = {}
        ELSE /\ "error" \notin DOMAIN reply
             /\ "patterns" \in DOMAIN reply
             /\ DOMAIN reply.patterns = ReportFields
             /\ reply.patterns.totalEntries = Cardinality(Window)

\* a store that holds entries, none of them in the window asked for
C27_Witness ==
    /\ PatternsAnswered
    /\ entries # <<>>
    /\ Window = {}
    /\ "error" \in DOMAIN reply

\* the entries of the window that have a score and lie on a calendar day,
\* the days that have such entries, and a score in tenths
ScoredOn(day) ==
    {k \in Window : /\ "sentimentScore" \in DOMAIN objs[entries[k]]
                    /\ Day(objs[entries[k]].timestamp) = day}
ScoredDays == {day \in {Day(objs[entries[k]].timestamp) : k \in Window} :
                  ScoredOn(day) # {}}
Tenths(score) == (score.num * 10) \div score.den
RECURSIVE TenthsOver(_)
TenthsOver(places) ==
    IF places = {} THEN 0
    ELSE LET k == CHOOSE k \in places : TRUE
         IN  Tenths(objs[entries[k]].sentimentScore) + TenthsOver(places \ {k})

WindowTopics ==
    FlatMap(SelectSeq(Snapshot(entries, objs),
                   LAMBDA e : e.timestamp >= now - Days(query.req) * HoursPerDay),
            "topics")
Occurrences(topic) == Cardinality({p \in DOMAIN WindowTopics : WindowTopics[p] = topic})
FirstSeen(topic) ==
    CHOOSE p \in DOMAIN WindowTopics :
        /\ WindowTopics[p] = topic
        /\ \A r \in 1..(p - 1) : WindowTopics[r] # topic

\* C29: the report's top topics are the ten topics that occur most often
\* among the entries of the window, each with its exact count, by
\* descending count, topics of equal count in the order in which they were
\* first seen in the entry slice, for any topic strings.
C29_TopTopicsFirstSeen ==
    (PatternsAnswered /\ "patterns" \in DOMAIN reply) =>
        LET top == reply.patterns.topTopics
            distinct == {WindowTopics[p] : p \in DOMAIN WindowTopics}
        IN
        /\ Len(top) = IF Cardinality(distinct) < 10 THEN Cardinality(distinct) ELSE 10
        /\ \A k \in DOMAIN top :
              /\ top[k].topic \in distinct
              /\ top[k].count = Occurrences(top[k].topic)
        /\ \A k, l \in DOMAIN top : k < l => top[k].topic # top[l].topic
        /\ \A k, l \in DOMAIN top :
              k < l =>
                 \/ top[k].count > top[l].count
                 \/ /\ top[k].count = top[l].count
                    /\ FirstSeen(top[k].topic) < FirstSeen(top[l].topic)

\* a digest request whose narrative was asked for and attempted, answered,
\* and the response a request without ai=true gets for the same date
NarrativeAttempted ==
    /\ reply.route \in {"daily", "weekly"}
    /\ WantsAI(query.req)
    /\ anthropicKey
    /\ reply.route = "daily" =>
          \E k \in DOMAIN entries : Day(objs[entries[k]].timestamp) = query.date
    /\ reply.route = "weekly" =>
          \E k \in DOMAIN entries :
              /\ Day(objs[entries[k]].timestamp) >= StartOfWeek(query.date)
              /\ Day(objs[entries[k]].timestamp) <= StartOfWeek(query.date) + 6
PlainDigest ==
    [route |-> reply.route, status |-> 200]
    @@ (IF reply.route = "daily" THEN basicDaily(Snapshot(entries, objs), query.date)
        ELSE basicWeekly(Snapshot(entries, objs), query.date))
NarrativeFailed == NarrativeAttempted /\ "ai" \notin DOMAIN reply

\* C30: when a daily or weekly digest is requested with a narrative and the
\* narrative provider fails or returns an unparsable response, the request
\* still succeeds and returns every non-AI aggregate field with exactly the
\* value a request without a narrative returns for the same window, and no
\* narrative.
C30_NarrativeFailureDegrades ==
    NarrativeFailed =>
        /\ reply.status = 200
        /\ "aiError" \in DOMAIN reply
        /\ reply.aiError \in NarrativeErrors
        /\ Omit(reply, "aiError") = PlainDigest

\* a daily digest of a day with entries whose narrative came back unparsable
C30_Witness ==
    /\ NarrativeFailed
    /\ reply.route = "daily"
    /\ reply.status = 200
    /\ reply.aiError = "Unexpected token"
    /\ reply.totalEntries > 0
    /\ reply.topics # <<>>

-----------------------------------------------------------------------------
(* C31..C40: idempotence, persistence and frame of the stages, concurrent  *)
(* writers, the exercise and wearable plugins                              *)

\* summary, sentiment, sentimentScore, topics, actionItems and mood of an entry
AnalysisOfEntry(e) ==
    [summary |-> e.summary, sentiment |-> e.sentiment,
     sentimentScore |-> e.sentimentScore, topics |-> e.topics,
     actionItems |-> e.actionItems, mood |-> e.mood]

\* a manual analyze completes on an entry that already holds what the same
\* provider answered for the same transcript, the transcript not having
\* changed since the request was made
AnalyzedAgain(r, c, m) ==
    /\ MAnalyzed(r, c, m)
    /\ objs[r.ref].analyzedAt
    /\ objs[r.ref].transcript = c.arg
    /\ AnalysisOfEntry(objs[r.ref]) = AnalysisOf(c.arg, m)

\* C31: the analyze stage is idempotent: a second manual analyze of an entry
\* whose transcript is unchanged, the provider answering as it did the first
\* time, leaves summary, sentiment, sentimentScore, topics, actionItems and
\* mood as the first run left them and changes no other field but analyzedAt.
C31_AnalyzeIdempotent ==
    [][\A r \in Running : \A c \in r.calls, m \in Shapes :
          AnalyzedAgain(r, c, m) =>
              /\ AnalysisOfEntry(objs'[r.ref]) = AnalysisOfEntry(objs[r.ref])
              /\ objs' = [objs EXCEPT ![r.ref].analyzedAt = TRUE]
              /\ entries' = entries]_vars

\* two manual analyze requests of one entry in flight, the first of them
\* completed and the second about to
C31_Witness ==
    \E r \in Running :
        /\ r.kind = "manalyze"
        /\ \A q \in Running : q.kind = "manalyze"
        /\ objs[r.ref].analyzedAt
        /\ ~objs[r.ref].processed
        /\ \E c \in r.calls :
              /\ objs[r.ref].transcript = c.arg
              /\ AnalysisOfEntry(objs[r.ref]) = AnalysisOf(c.arg, {})

\* C32: every mutation of the entry store is followed by a full-snapshot
\* persist before control is yielded: wherever the handlers and pipeline
\* continuations are suspended on a provider call or have finished, the
\* persisted snapshot equals the in-memory entry store.
C32_PersistedWhenSuspended == disk = Snapshot(entries, objs)

\* C33: each stage timestamp is set only when its field is populated: in
\* every reachable state transcribedAt set implies a non-null transcript,
\* analyzedAt set implies non-null summary, sentiment and mood, and
\* embeddedAt is set if and only if the embedding is non-null.
C33_TimestampsWithFields ==
    \A i \in DOMAIN objs :
        /\ objs[i].transcribedAt => ~IsNull(objs[i].transcript)
        /\ objs[i].analyzedAt =>
              /\ ~IsNull(objs[i].summary)
              /\ ~IsNull(objs[i].sentiment)
              /\ ~IsNull(objs[i].mood)
        /\ objs[i].embeddedAt <=> ~IsNull(objs[i].embedding)

\* the step is the success of an embedding call c of a run for the entry
\* object i
EmbeddedBy(i, r, c) ==
    /\ r.ref = i
    /\ c.provider = "embed"
    /\ AutoEmbedded(r, c) \/ AutoEmbeddedOnly(r, c) \/ MEmbedded(r, c) \/ EAEmbedded(r, c)

Quiescent(i) == \A r \in Running : r.ref # i

\* C36: whenever no run is in flight for an entry, its non-null summary
\* (with its topics) is the analysis of the entry's current transcript,
\* under any interleaving of the automatic run with manual transcribe and
\* manual analyze requests and under any provider failure; stated for the
\* entries that no update request has written to.
C36_SummaryOfCurrentTranscript ==
    \A i \in DOMAIN objs :
        (Quiescent(i) /\ ~IsNull(objs[i].summary) /\ ~objs[i].updatedAt) =>
            /\ ~IsNull(objs[i].transcript)
            /\ objs[i].summary = AnalysisOf(objs[i].transcript, {}).summary
            /\ objs[i].topics = AnalysisOf(objs[i].transcript, {}).topics

\* C37: embed-all embeds only entries that have no embedding: under any
\* interleaving with an automatic run or a manual embed of the same entry,
\* embed-all never overwrites an embedding that was already set at the
\* moment it writes to that entry (and its counts satisfy embedded + failed
\* = total); stated for the write: the step in which embed-all stores an
\* embedding finds the entry without one.
C37_EmbedAllOnlyUnembedded ==
    [][\A r \in Running : \A c \in r.calls :
          EAEmbedded(r, c) => IsNull(objs[r.ref].embedding)]_vars

\* C38: an entry deleted while its automatic run or a manual request for
\* it waits on a provider call is never put back by the stages that
\* complete afterwards: a step of a run whose entry is not in the store
\* leaves the store and the persisted snapshot as they were, no step but
\* an ingestion adds to the store, every snapshot persisted is the store,
\* and a delete leaves the other entries as they were.
C38_DeletedStaysDeleted ==
    [][/\ \A r \in Running : \A c \in r.calls :
             (r.ref \notin Stored /\ RunStep(r, c)) =>
                 /\ entries' = entries
                 /\ Snapshot(entries', objs') = Snapshot(entries, objs)
                 /\ disk' = disk
       /\ \A x \in Stored' : x \in Stored \/ x \notin DOMAIN objs
       /\ disk' = Snapshot(entries', objs')
       /\ \A id \in Ids :
             (FindEntry(id) # 0 /\ Delete(id)) =>
                 /\ entries' = SelectSeq(entries, LAMBDA x : x # FindEntry(id))
                 /\ objs' = objs]_vars

\* of two entries the first was deleted while its run was waiting and is
\* absent from the store and from the snapshot; its run has gone on to a
\* later stage and the second entry is as it was ingested
C38_Witness ==
    /\ Len(objs) = 2
    /\ entries = <<2>>
    /\ Len(disk) = 1
    /\ disk[1] = objs[2]
    /\ ~objs[2].transcribedAt
    /\ objs[1].transcribedAt
    /\ \E r \in Running : r.ref = 1 /\ r.kind = "auto" /\ r.pc \in {"analyze", "embed"}

-----------------------------------------------------------------------------
(* The exercise plugin: plugins/exercise/data.js and POST /sessions of     *)
(* plugins/exercise/routes.js.  A time stamp is in hours since the epoch,  *)
(* as for the entries of server.js; of a session the model keeps the time  *)
(* stamp and the category.                                                 *)

MaxSessions == 4
MaxDay == 4

\* the state that no route of a plugin touches, but for the clock
core == <<openaiKey, anthropicKey, objs, entries, disk, runs, resp,
          registry, dispatch, loader, query, reply>>

\* the server as it starts with no provider key, the plugins with no data
PluginInit == Init /\ ~openaiKey /\ ~anthropicKey

\* the hours at which a session is logged: a morning and an evening of
\* each day, the clock never running backwards
SessionHours == {d * HoursPerDay + h : d \in 0..MaxDay, h \in {9, 21}}
SessionClock == {t \in SessionHours : t >= now}

\* req.body of POST /sessions
SessionBodies ==
    {[category |-> c] : c \in {Undef, "", "balance"}}

\* timestamp.split('T')[0], a date as a string, and the days from the
\* epoch to the midnight that new Date(date) gives for it
DateOf(timestamp) == ToString(Day(timestamp))
EpochDay(date) == CHOOSE d \in 0..MaxDay : ToString(d) = date

\* updateStreaks with a session of every day counted: the same day adds
\* to the streak as the next day does
updateStreaksPerSession(streaks, timestamp) ==
    LET today == DateOf(timestamp)
        lastDate == streaks.lastDate
        diffDays == IF IsNull(lastDate) THEN 0
                    ELSE EpochDay(today) - EpochDay(lastDate)
        counted ==
            IF IsNull(lastDate)
            THEN [streaks EXCEPT !.current = 1, !.longest = 1]
            ELSE IF lastDate = today \/ diffDays = 1
            THEN [streaks EXCEPT
                     !.current = @ + 1,
                     !.longest = IF streaks.current + 1 > @
                                 THEN streaks.current + 1 ELSE @]
            ELSE IF diffDays > 1
            THEN [streaks EXCEPT !.current = 1]
            ELSE streaks
    IN  [counted EXCEPT !.lastDate = today]

\* updateStreaks(timestamp), on data.streaks
updateStreaks(streaks, timestamp) ==
    LET today == DateOf(timestamp)
        lastDate == streaks.lastDate
        diffDays == IF IsNull(lastDate) THEN 0
                    ELSE EpochDay(today) - EpochDay(lastDate)
        counted ==
            IF IsNull(lastDate)
            THEN [streaks EXCEPT !.current = 1, !.longest = 1]
            ELSE IF lastDate = today
            THEN streaks
            ELSE IF diffDays = 1
            THEN [streaks EXCEPT
                     !.current = @ + 1,
                     !.longest = IF streaks.current + 1 > @
                                 THEN streaks.current + 1 ELSE @]
            ELSE IF diffDays > 1
            THEN [streaks EXCEPT !.current = 1]
            ELSE streaks
    IN  [counted EXCEPT !.lastDate = today]

\* logSession(session) up to its save(): the data it leaves in memory
logSession(data, session, t) ==
    LET entry == [timestamp |-> t, category |-> session.category]
    IN  [sessions |-> Append(data.sessions, entry),
         streaks |-> updateStreaks(data.streaks, entry.timestamp)]

\* POST /sessions that logs the session before it looks at the category
PostSessionUnvalidated(body, t) ==
    /\ Len(exercise.sessions) < MaxSessions
    /\ exercise' = logSession(exercise, body, t)
    /\ exerciseFile' = <<exercise'>>
    /\ now' = t
    /\ answer' = [route |-> "sessions",
                  status |-> IF Truthy(body.category) THEN 200 ELSE 400]
    /\ UNCHANGED <<core, wearable, wearableFile>>

\* router.post('/sessions', ...), the clock reading t when a session is
\* logged
PostSession(body, t) ==
    IF ~Truthy(body.category)
    THEN /\ answer' = [route |-> "sessions", status |-> 400]
         /\ UNCHANGED <<core, now, exercise, exerciseFile, wearable, wearableFile>>
    ELSE /\ Len(exercise.sessions) < MaxSessions
         /\ exercise' = logSession(exercise, body, t)
         /\ exerciseFile' = <<exercise'>>
         /\ now' = t
         /\ answer' = [route |-> "sessions", status |-> 200]
         /\ UNCHANGED <<core, wearable, wearableFile>>

\* the process starts again: data.js is loaded and reads its file, if
\* there is one
ExerciseReload ==
    /\ exercise' = IF exerciseFile = NoFile THEN EmptyExercise ELSE exerciseFile[1]
    /\ UNCHANGED <<core, now, exerciseFile, wearable, wearableFile, answer>>

ExerciseNext ==
    \/ \E body \in SessionBodies : \E t \in SessionClock : PostSession(body, t)
    \/ ExerciseReload

ExerciseSpec == PluginInit /\ [][ExerciseNext]_vars

\* C35: a session log with no category is answered 400 and changes
\* neither the session list, nor the streak counters, nor the persisted
\* exercise data.
C35_NoCategoryRejectedUntouched ==
    [][\A body \in SessionBodies : \A t \in SessionClock :
          (~Truthy(body.category) /\ PostSession(body, t)) =>
              /\ answer'.status = 400
              /\ exercise'.sessions = exercise.sessions
              /\ exercise'.streaks = exercise.streaks
              /\ exerciseFile' = exerciseFile]_vars

\* a log with no category has just been rejected after sessions were
\* logged, and the sessions and their file are as the last log left them
C35_Witness ==
    /\ answer = [route |-> "sessions", status |-> 400]
    /\ Len(exercise.sessions) = 2
    /\ exercise.streaks.current = 2
    /\ exerciseFile = <<exercise>>

\* the session logged by the step, and the one logged before it
Logged == Len(exercise'.sessions) = Len(exercise.sessions) + 1
LoggedDay == Day(exercise'.sessions[Len(exercise'.sessions)].timestamp)
LastDay == Day(exercise.sessions[Len(exercise.sessions)].timestamp)

\* C39: from empty data, once a session is logged longest >= current >= 1;
\* a session on the day of the last one changes neither counter, one on
\* the next day adds one to current, and one after a gap of two days or
\* more sets current to 1 and leaves longest.
C39_Streaks ==
    [][/\ exercise'.sessions # <<>> =>
             /\ exercise'.streaks.longest >= exercise'.streaks.current
             /\ exercise'.streaks.current >= 1
       /\ (Logged /\ exercise.sessions # <<>>) =>
             /\ LoggedDay = LastDay =>
                   /\ exercise'.streaks.current = exercise.streaks.current
                   /\ exercise'.streaks.longest = exercise.streaks.longest
             /\ LoggedDay = LastDay + 1 =>
                   exercise'.streaks.current = exercise.streaks.current + 1
             /\ LoggedDay >= LastDay + 2 =>
                   /\ exercise'.streaks.current = 1
                   /\ exercise'.streaks.longest = exercise.streaks.longest]_vars

\* four sessions: two on consecutive days, a second one on the latter
\* day, and one after a gap, which ended a streak of two
C39_Witness ==
    /\ Len(exercise.sessions) = 4
    /\ Day(exercise.sessions[2].timestamp) = Day(exercise.sessions[1].timestamp) + 1
    /\ Day(exercise.sessions[3].timestamp) = Day(exercise.sessions[2].timestamp)
    /\ Day(exercise.sessions[4].timestamp) >= Day(exercise.sessions[3].timestamp) + 2
    /\ exercise.streaks.current = 1
    /\ exercise.streaks.longest = 2

-----------------------------------------------------------------------------
(* The wearable plugin: plugins/wearable/data.js and its routes.  A date   *)
(* is the string that DateOf gives; of a source the model keeps the id,    *)
(* the type, the name and whether lastImportAt was set, of an activity     *)
(* record the date, the source and the steps.                              *)

MaxSources == 1
MaxActivities == 2
MaxStamp == 1

\* Date.now() as a route of the plugin reads it for the id of a source
WearableClock == {t \in 1..MaxStamp : t >= now}

\* what JSON.parse reads back from what JSON.stringify wrote: a goal that
\* is NaN is written as null, every other value of the data as it is
JsonNull == [null |-> TRUE]
Json(data) ==
    [data EXCEPT !.goals =
        [g \in DOMAIN data.goals |->
            IF "den" \in DOMAIN data.goals[g] /\ IsNaN(data.goals[g])
            THEN JsonNull ELSE data.goals[g]]]

\* save() of the wearable data, and the load of the module
WearableSaved(data) == <<Json(data)>>
WearableLoaded == IF wearableFile = NoFile THEN EmptyWearable ELSE wearableFile[1]

\* data.sources.find(s => s.id === id): its index, 0 when there is none
FindSource(sources, id) ==
    IF \E k \in DOMAIN sources : sources[k].id = id
    THEN CHOOSE k \in DOMAIN sources :
            /\ sources[k].id = id
            /\ \A j \in 1..(k - 1) : sources[j].id # id
    ELSE 0

\* addSource(source) up to its save(), the clock reading t
addSource(data, source, t) ==
    LET id == Param(source, "id", Undef)
        k == FindSource(data.sources, id)
    IN  IF k # 0
        THEN [data EXCEPT !.sources[k] =
                 [@ EXCEPT !.id = id,
                           !.type = Param(source, "type", Undef),
                           !.name = Param(source, "name", Undef)]]
        ELSE [data EXCEPT !.sources = Append(@,
                 [id |-> IF Truthy(id) THEN id ELSE "source-" \o ToString(t),
                  type |-> IF Truthy(Param(source, "type", Undef))
                           THEN source.type ELSE "unknown",
                  name |-> IF Truthy(Param(source, "name", Undef))
                           THEN source.name ELSE "Unknown Device",
                  lastImportAt |-> FALSE])]

\* updateSourceImportTime(sourceId) up to its save()
updateSourceImportTime(data, sourceId) ==
    LET k == FindSource(data.sources, sourceId)
    IN  IF k # 0 THEN [data EXCEPT !.sources[k].lastImportAt = TRUE] ELSE data

\* data.activities.findIndex(a => a.date === activity.date &&
\* a.sourceId === sourceId): the index from 1, 0 when there is none
FindActivity(activities, date, sourceId) ==
    IF \E k \in DOMAIN activities :
          activities[k].date = date /\ activities[k].sourceId = sourceId
    THEN CHOOSE k \in DOMAIN activities :
            /\ activities[k].date = date /\ activities[k].sourceId = sourceId
            /\ \A j \in 1..(k - 1) :
                  ~(activities[j].date = date /\ activities[j].sourceId = sourceId)
    ELSE 0

\* the loop of addActivities over what is left of the import: the
\* activities with the two counts
RECURSIVE MergeActivities(_, _, _)
MergeActivities(merged, activities, sourceId) ==
    IF activities = <<>> THEN merged
    ELSE LET activity == [date |-> Head(activities).date,
                          sourceId |-> sourceId,
                          steps |-> Head(activities).steps]
             existingIdx == FindActivity(merged.activities, activity.date, sourceId)
         IN  MergeActivities(
                 IF existingIdx # 0
                 THEN [merged EXCEPT !.activities[existingIdx] = activity,
                                     !.updated = @ + 1]
                 ELSE [merged EXCEPT !.activities = Append(@, activity),
                                     !.added = @ + 1],
                 Tail(activities), sourceId)

\* data.activities.sort((a, b) => b.date.localeCompare(a.date))
ByDateDescending(activities) ==
    Sort(activities,
         [i \in DOMAIN activities |-> [j \in DOMAIN activities |->
             EpochDay(activities[i].date) > EpochDay(activities[j].date)]])

\* addActivities(activities, sourceId): the data it leaves, in memory and
\* written by its save() and by that of updateSourceImportTime, with the
\* two counts
addActivities(data, activities, sourceId) ==
    LET merged == MergeActivities(
                      [activities |-> data.activities, added |-> 0, updated |-> 0],
                      activities, sourceId)
        sorted == [data EXCEPT !.activities = ByDateDescending(merged.activities)]
    IN  [data |-> updateSourceImportTime(sorted, sourceId),
         added |-> merged.added,
         updated |-> merged.updated]

\* parseGenericExport(exportData) of an array of daily records
parseGenericExport(exportData) ==
    LET dated == SelectSeq(exportData, LAMBDA record : Truthy(Param(record, "date", Undef)))
    IN  [k \in DOMAIN dated |->
            [date |-> dated[k].date, steps |-> Param(dated[k], "steps", 0)]]

\* the dates of the activity records
ActivityDates == {DateOf(d * HoursPerDay) : d \in 0..1}

\* req.body of POST /sources
SourceBodies ==
    {[name |-> "Gear"], [id |-> "watch"], [id |-> "watch", type |-> "samsung"]}

\* req.body of POST /activity
ActivityBodies ==
    {[steps |-> 5000], [date |-> DateOf(0), steps |-> 0]}
    \cup {[date |-> d, steps |-> 5000] : d \in ActivityDates}
    \cup {[date |-> d, steps |-> 5000, sourceId |-> "watch"] : d \in ActivityDates}

\* exports in the generic format: up to two daily records, of one date or
\* of two, one of them perhaps without a date
GenericExports ==
    LET undated == [steps |-> 7000]
        first == [date |-> DateOf(0), steps |-> 7000]
        second == [date |-> DateOf(HoursPerDay), steps |-> 7000]
    IN  {<<>>, <<undated>>, <<first>>, <<first, first>>, <<first, second>>,
         <<undated, second>>}

\* req.body of POST /import, of the generic source type
ImportBodies ==
    {[source |-> "generic"]}
    \cup {[source |-> "generic", data |-> e] : e \in GenericExports}
    \cup {[source |-> "generic", data |-> e, sourceId |-> "watch"] : e \in GenericExports}

\* req.body of PUT /goals
GoalBodies ==
    {[steps |-> <<"x">>],
     [calories |-> <<"9", "0", "0">>, activeMinutes |-> <<"4", "5">>]}

\* req.params.id of DELETE /sources/:id
SourceParams == {"watch", "source-1", "generic-1"}

\* router.post('/sources', ...)
PostSource(body, t) ==
    /\ wearable' = addSource(wearable, body, t)
    /\ Len(wearable'.sources) <= MaxSources
    /\ wearableFile' = WearableSaved(wearable')
    /\ now' = IF Len(wearable'.sources) > Len(wearable.sources) /\ "id" \notin DOMAIN body
              THEN t ELSE now
    /\ answer' = [route |-> "sources", status |-> 200]
    /\ UNCHANGED <<core, exercise, exerciseFile>>

\* router.delete('/sources/:id', ...)
DeleteSource(id) ==
    LET idx == FindSource(wearable.sources, id)
    IN  /\ IF idx = 0
           THEN /\ answer' = [route |-> "sources/:id", status |-> 404]
                /\ UNCHANGED wearable
           ELSE /\ wearable' = [wearable EXCEPT !.sources =
                                   SubSeq(@, 1, idx - 1) \o SubSeq(@, idx + 1, Len(@))]
                /\ answer' = [route |-> "sources/:id", status |-> 200]
        /\ UNCHANGED <<core, now, exercise, exerciseFile, wearableFile>>

\* router.post('/activity', ...)
PostActivity(body) ==
    IF ~Truthy(Param(body, "date", Undef))
    THEN /\ answer' = [route |-> "activity", status |-> 400]
         /\ UNCHANGED <<core, now, exercise, exerciseFile, wearable, wearableFile>>
    ELSE LET activity == [date |-> body.date, steps |-> body.steps]
             result == addActivities(wearable, <<activity>>,
                                     Param(body, "sourceId", "companion-app"))
         IN  /\ Len(result.data.activities) <= MaxActivities
             /\ wearable' = result.data
             /\ wearableFile' = WearableSaved(wearable')
             /\ answer' = [route |-> "activity", status |-> 200, days |-> 1,
                           added |-> result.added, updated |-> result.updated]
             /\ UNCHANGED <<core, now, exercise, exerciseFile>>

\* router.post('/import', ...) with a JSON body, the clock reading t
PostImport(body, t) ==
    IF "data" \notin DOMAIN body
    THEN /\ answer' = [route |-> "import", status |-> 400]
         /\ UNCHANGED <<core, now, exercise, exerciseFile, wearable, wearableFile>>
    ELSE LET sourceType == body.source
             sourceId == Param(body, "sourceId", sourceType \o "-" \o ToString(t))
             withSource == addSource(wearable,
                               [id |-> sourceId, type |-> sourceType,
                                name |-> "Samsung Galaxy Watch"], t)
             activities == parseGenericExport(body.data)
             result == addActivities(withSource, activities, sourceId)
         IN  /\ Len(withSource.sources) <= MaxSources
             /\ now' = IF "sourceId" \in DOMAIN body THEN now ELSE t
             /\ IF activities = <<>>
                THEN /\ wearable' = withSource
                     /\ answer' = [route |-> "import", status |-> 400]
                ELSE /\ Len(result.data.activities) <= MaxActivities
                     /\ wearable' = result.data
                     /\ answer' = [route |-> "import", status |-> 200,
                                   days |-> Len(activities),
                                   added |-> result.added,
                                   updated |-> result.updated]
             /\ wearableFile' = WearableSaved(wearable')
             /\ UNCHANGED <<core, exercise, exerciseFile>>

\* router.put('/goals', ...) and setGoals(goals)
PutGoals(body) ==
    LET goals == [g \in DOMAIN body |-> parseInt(body[g])]
    IN  /\ wearable' = [wearable EXCEPT !.goals =
                           [g \in DOMAIN @ |-> IF g \in DOMAIN goals THEN goals[g] ELSE @[g]]]
        /\ wearableFile' = WearableSaved(wearable')
        /\ answer' = [route |-> "goals", status |-> 200]
        /\ UNCHANGED <<core, now, exercise, exerciseFile>>

\* the process starts again: data.js is loaded and reads its file, if
\* there is one
WearableReload ==
    /\ wearable' = WearableLoaded
    /\ UNCHANGED <<core, now, exercise, exerciseFile, wearableFile, answer>>

WearableNext ==
    \/ \E body \in SourceBodies : \E t \in WearableClock : PostSource(body, t)
    \/ \E id \in SourceParams : DeleteSource(id)
    \/ \E body \in ActivityBodies : PostActivity(body)
    \/ \E body \in ImportBodies : \E t \in WearableClock : PostImport(body, t)
    \/ \E body \in GoalBodies : PutGoals(body)
    \/ WearableReload

WearableSpec == PluginInit /\ [][WearableNext]_vars

\* C40: between requests the wearable data that a restart would load is
\* the data in memory, so that a removed source is not listed again; the
\* activity records are at most one for a date and a source, and an
\* import answers with added + updated equal to the records imported.
C40_WearablePersisted ==
    /\ WearableLoaded = wearable
    /\ \A i, j \in DOMAIN wearable.activities :
          (/\ wearable.activities[i].date = wearable.activities[j].date
           /\ wearable.activities[i].sourceId = wearable.activities[j].sourceId)
              => i = j
    /\ (answer.route \in {"import", "activity"} /\ answer.status = 200) =>
          answer.added + answer.updated = answer.days

====
